---- MODULE Spec2Model ----
(***************************************************************************)
(* Generative art studio (block-art-tonk): the artwork store, the          *)
(* ArtCanvas render loop with the GenerativeArt view's handlers, the       *)
(* custom algorithm editor, the registry and catalog with the built-in     *)
(* units' declared parameters, the cellular automata unit's draw and the   *)
(* flow-field unit's shared animation state.                               *)
(*                                                                         *)
(* Conventions.  Parameter values are small integers; a boolean parameter  *)
(* is 0 / 1, which keeps JavaScript truthiness (`if (parameters.x)`) and   *)
(* lets one mapping hold every kind of value.  A ParameterValues object is *)
(* a function from parameter ids to values.  An algorithm is named by its  *)
(* id; "null" is the absent selection.                                     *)
(***************************************************************************)
EXTENDS Integers, Sequences, FiniteSets, TLC

\* ------------------------------------------------------------------ bounds
MaxVal == 1
MaxCustom == 1
MaxArtworks == 1

Vals == 0..MaxVal

\* ------------------------------------------------------------ catalog data
Null == "null"
NoParams == [k \in {} |-> 0]

BuiltInIds == {"flow-field"}
CustomIdPool == <<"custom-1", "custom-2", "custom-3", "custom-4", "custom-5">>
CustomIds == {CustomIdPool[i] : i \in 1..MaxCustom}
AlgorithmIds == BuiltInIds \cup CustomIds

\* the declared parameter list of a unit: ordered {id, default} entries
AlgorithmParameters(a) ==
  CASE a = "flow-field" -> << [id |-> "particleCount", default |-> 1] >>
    [] a = "custom-1"   -> << [id |-> "autoGenerate", default |-> 1] >>
    [] a = "custom-2"   -> << [id |-> "autoGenerate", default |-> 0] >>
    [] OTHER            -> << [id |-> "rows", default |-> 1] >>

ParameterIds(a) ==
  IF a = Null THEN {}
  ELSE {AlgorithmParameters(a)[i].id : i \in 1..Len(AlgorithmParameters(a))}

\* getDefaultParameters: each declared id mapped to its default; a later
\* entry with the same id overwrites an earlier one
getDefaultParameters(a) ==
  LET ps == AlgorithmParameters(a)
      last(k) == CHOOSE i \in 1..Len(ps) :
                   /\ ps[i].id = k
                   /\ \A j \in 1..Len(ps) : ps[j].id = k => j <= i
  IN [k \in ParameterIds(a) |-> ps[last(k)].default]

\* { ...a, ...b }
Spread(a, b) ==
  [k \in (DOMAIN a) \cup (DOMAIN b) |-> IF k \in DOMAIN b THEN b[k] ELSE a[k]]

VARIABLES
  selectedAlgorithm,   \* store: id of the selected unit, or Null
  parameters,          \* store: the ParameterValues
  customAlgorithms,    \* store: sequence of [id, isCustom]
  savedArtworks,       \* store: sequence of [algorithm, parameters]
  op,                  \* name of the operation that produced this state
  mounted,             \* ArtCanvas: the component is mounted (canvasRef.current set)
  animate,             \* ArtCanvas prop
  autoRegenerate,      \* ArtCanvas prop
  width,               \* ArtCanvas prop
  lastParameters,      \* ArtCanvas state
  animationRef,        \* ArtCanvas ref: handle of the last requested frame, or NoHandle
  isAnimatingRef,      \* ArtCanvas ref
  pending,             \* host: requested animation frames not yet fired or cancelled
  tick,                \* the animateFrame call whose draw is running: {} or {closure}
  canvasRef,           \* GenerativeArt state: a canvas element was handed up
  log,                 \* draw invocations made by the operation that produced this state
  flowFieldGlobalStore,  \* window.flowFieldGlobalStore: [defined, lastParams]
  flowFieldParticles,    \* window.flowFieldParticles: [defined, pool]
  flowDraw,              \* the last flowFieldAlgorithm.draw call
  showCustomEditor,    \* GenerativeArt state: the editor modal is open
  code,                \* editor state: the source text, by what becomes of it
  editorParameters,    \* editor state `parameters`: sequence of [id, default]
  currentValues,       \* editor state: the preview's ParameterValues
  previewError,        \* editor state: "none" or the kind of the message shown
  onSaveArg,           \* what the editor opened last handed to onSave: <<>> or <<unit>>
  caDraw,              \* the last cellularAutomataAlgorithm.draw call
  lookup,              \* the last getAlgorithmById call: [id, found]
  caSize,              \* the grid of the cellular automata call: <<rows, cols>>
  followCall,          \* a call of Particle.follow and the force applied
  voronoiDraw,         \* a call of the voronoi draw and its seed points
  mandalaDraw,         \* a call of the mandala draw in its curve loop
  lSystem,             \* a call of generateLSystem and its result so far
  particleUpdate,      \* a call of Particle.update of the particle system
  tutorial             \* the state of the tutorial store

storeVars == <<selectedAlgorithm, parameters, customAlgorithms, savedArtworks>>
propVars == <<animate, autoRegenerate, width>>
canvasVars == <<mounted, lastParameters, animationRef, isAnimatingRef, pending,
                tick, canvasRef>>
flowVars == <<flowFieldGlobalStore, flowFieldParticles, flowDraw>>
pureVars == <<caDraw, lookup, caSize, followCall, voronoiDraw, mandalaDraw, lSystem, particleUpdate, tutorial>>
editorVars == <<showCustomEditor, code, editorParameters, currentValues,
                previewError, onSaveArg>>
appVars == <<storeVars, propVars, canvasVars, log, flowVars, editorVars>>
vars == <<selectedAlgorithm, parameters, customAlgorithms, savedArtworks, op,
          mounted, animate, autoRegenerate, width, lastParameters, animationRef,
          isAnimatingRef, pending, tick, canvasRef, log,
          flowFieldGlobalStore, flowFieldParticles, flowDraw,
          showCustomEditor, code, editorParameters, currentValues,
          previewError, onSaveArg, caDraw, lookup,
          caSize,
          followCall,
          voronoiDraw,
          mandalaDraw,
          lSystem,
          particleUpdate,
          tutorial>>

\* the operation's name is recorded; the state of the other components stays
Op(name) ==
  /\ op' = name
  /\ UNCHANGED <<flowVars, editorVars, pureVars>>

\* ------------------------------------------------------------ artworkStore
StoreInit ==
  /\ selectedAlgorithm = Null
  /\ parameters = NoParams
  /\ customAlgorithms = <<>>
  /\ savedArtworks = <<>>

\* customAlgorithms.find((a) => a.id === id) || null
FindCustom(id) ==
  IF \E i \in 1..Len(customAlgorithms) : customAlgorithms[i].id = id
  THEN id ELSE Null

setSelectedAlgorithm(a) ==
  /\ selectedAlgorithm' = a
  /\ parameters' = IF a # Null THEN getDefaultParameters(a) ELSE NoParams
  /\ UNCHANGED <<customAlgorithms, savedArtworks>>

updateParameters(newParams) ==
  /\ parameters' = Spread(parameters, newParams)
  /\ UNCHANGED <<selectedAlgorithm, customAlgorithms, savedArtworks>>

resetParameters ==
  /\ parameters' = IF selectedAlgorithm # Null
                   THEN getDefaultParameters(selectedAlgorithm)
                   ELSE parameters
  /\ UNCHANGED <<selectedAlgorithm, customAlgorithms, savedArtworks>>

saveArtwork ==
  /\ selectedAlgorithm # Null
  /\ Len(savedArtworks) < MaxArtworks
  /\ savedArtworks' = Append(savedArtworks,
                             [algorithm |-> selectedAlgorithm,
                              parameters |-> parameters])
  /\ UNCHANGED <<selectedAlgorithm, parameters, customAlgorithms>>

deleteArtwork(i) ==
  /\ i \in 1..Len(savedArtworks)
  /\ savedArtworks' = [j \in 1..(Len(savedArtworks) - 1) |->
                         IF j < i THEN savedArtworks[j] ELSE savedArtworks[j + 1]]
  /\ UNCHANGED <<selectedAlgorithm, parameters, customAlgorithms>>

remixArtwork(artwork) ==
  /\ selectedAlgorithm' = FindCustom(artwork.algorithm)
  /\ parameters' = artwork.parameters
  /\ UNCHANGED <<customAlgorithms, savedArtworks>>

\* mutant: the new unit is put in front of the list
saveCustomAlgorithm_Prepend(a) ==
  /\ customAlgorithms' = <<[id |-> a, isCustom |-> TRUE]>> \o customAlgorithms
  /\ selectedAlgorithm' = a
  /\ UNCHANGED <<parameters, savedArtworks>>

saveCustomAlgorithm(a) ==
  /\ customAlgorithms' = Append(customAlgorithms, [id |-> a, isCustom |-> TRUE])
  /\ selectedAlgorithm' = a
  /\ UNCHANGED <<parameters, savedArtworks>>

deleteCustomAlgorithm(algorithmId) ==
  LET keep(u) == u.id # algorithmId
  IN /\ customAlgorithms' = SelectSeq(customAlgorithms, keep)
     /\ selectedAlgorithm' = IF selectedAlgorithm = algorithmId
                             THEN Null ELSE selectedAlgorithm
     /\ UNCHANGED <<parameters, savedArtworks>>

\* ids the editor can still hand out: `custom-${Date.now()}` is fresh
FreshCustomIds ==
  {c \in CustomIds : \A i \in 1..Len(customAlgorithms) : customAlgorithms[i].id # c}

\* --------------------------------------------- store operations as actions
SetSelectedAlgorithm ==
  \E a \in AlgorithmIds \cup {Null} :
    /\ a \in BuiltInIds \cup {Null} \/ FindCustom(a) = a
    /\ setSelectedAlgorithm(a)
    /\ Op("setSelectedAlgorithm")
    /\ UNCHANGED <<propVars, canvasVars, log>>

UpdateParameters ==
  \E k \in ParameterIds(selectedAlgorithm), v \in Vals :
    /\ updateParameters([x \in {k} |-> v])
    /\ Op("updateParameters")
    /\ UNCHANGED <<propVars, canvasVars, log>>

ResetParameters ==
  /\ resetParameters
  /\ Op("resetParameters")
  /\ UNCHANGED <<propVars, canvasVars, log>>

SaveArtwork ==
  /\ saveArtwork
  /\ Op("saveArtwork")
  /\ UNCHANGED <<propVars, canvasVars, log>>

DeleteArtwork ==
  \E i \in 1..Len(savedArtworks) :
    /\ deleteArtwork(i)
    /\ Op("deleteArtwork")
    /\ UNCHANGED <<propVars, canvasVars, log>>

RemixArtwork ==
  \E i \in 1..Len(savedArtworks) :
    /\ remixArtwork(savedArtworks[i])
    /\ Op("remixArtwork")
    /\ UNCHANGED <<propVars, canvasVars, log>>

SelectArtwork ==
  \E i \in 1..Len(savedArtworks) :
    /\ updateParameters(savedArtworks[i].parameters)
    /\ Op("selectArtwork")
    /\ UNCHANGED <<propVars, canvasVars, log>>

SaveCustomAlgorithm ==
  \E a \in FreshCustomIds :
    /\ saveCustomAlgorithm(a)
    /\ Op("saveCustomAlgorithm")
    /\ UNCHANGED <<propVars, canvasVars, log>>

DeleteCustomAlgorithm ==
  \E i \in 1..Len(customAlgorithms) :
    /\ deleteCustomAlgorithm(customAlgorithms[i].id)
    /\ Op("deleteCustomAlgorithm")
    /\ UNCHANGED <<propVars, canvasVars, log>>

StoreNext ==
  \/ SetSelectedAlgorithm
  \/ UpdateParameters
  \/ ResetParameters
  \/ SaveArtwork
  \/ DeleteArtwork
  \/ RemixArtwork
  \/ SelectArtwork
  \/ SaveCustomAlgorithm
  \/ DeleteCustomAlgorithm

\* ---------------------------------------------------------------- ArtCanvas
NoHandle == 0
DefaultWidth == 800
WideWidth == 1024
Widths == {DefaultWidth, WideWidth}

CanvasInit ==
  /\ mounted = FALSE
  /\ animate = TRUE
  /\ autoRegenerate = TRUE
  /\ width = DefaultWidth
  /\ lastParameters = NoParams
  /\ animationRef = NoHandle
  /\ isAnimatingRef = FALSE
  /\ pending = {}
  /\ tick = {}
  /\ canvasRef = FALSE
  /\ log = <<>>

\* one invocation of algorithm.draw(canvas, params): who called it, whether it
\* threw, whether the failure reached the caller's error callback, and whether
\* setupCanvas had reset the surface just before
DrawCall(by, a, p, threw, reported, reset) ==
  [by |-> by, algorithm |-> a, params |-> p, threw |-> threw,
   reported |-> reported, reset |-> reset]

\* the outcomes of a draw call (TRUE: it throws); one value when none is made
Outcomes(called) == IF called THEN BOOLEAN ELSE {FALSE}

\* window.requestAnimationFrame: a handle no live request holds and that
\* differs from the last one handed out (ref)
RequestHandle(P, ref) ==
  CHOOSE h \in 1..(Cardinality(P) + 2) :
    /\ h # ref
    /\ \A c \in P : c.handle # h

\* window.requestAnimationFrame(animateFrame): the callback closes over the
\* algorithm, parameters and animate of the render that created it
RequestAnimationFrame(P, ref, a, p, an) ==
  P \cup {[handle |-> RequestHandle(P, ref), algorithm |-> a,
           parameters |-> p, animate |-> an]}

\* mutant: the pending frame is never cancelled
CancelAnimationFrame_Never(P, ref) == P

\* if (animationRef.current !== null) window.cancelAnimationFrame(animationRef.current)
CancelAnimationFrame(P, ref) ==
  IF ref # NoHandle THEN {c \in P : c.handle # ref} ELSE P

\* mutant: generateArt without its `!algorithm` guard
generateArt_Unguarded(a, p, threw) ==
  << DrawCall("generateArt", a, p, threw, threw, TRUE) >>

\* generateArt of a render with algorithm a and parameters p, called while the
\* canvas element exists: the draws it makes (none without an algorithm)
generateArt(a, p, threw) ==
  IF a = Null THEN <<>>
  ELSE << DrawCall("generateArt", a, p, threw, threw, TRUE) >>

\* GenerativeArt.handleGenerate of a render with algorithm a and parameters p
handleGenerate(a, p, threw) ==
  IF a = Null \/ ~canvasRef THEN <<>>
  ELSE << DrawCall("handleGenerate", a, p, threw, FALSE, FALSE) >>

\* the parameter-change effect asks for a regeneration
ParameterEffectRegenerates(ar, np, animating) ==
  ar /\ np # lastParameters /\ ~animating

\* A re-render of the mounted ArtCanvas with new props, followed by its effects.
\* na, np, nan, nar, nw: the new algorithm, parameters, animate, autoRegenerate,
\* width; pNew: the parameters object is a new object; pre: draws the event
\* handler made before the render.
\*   animateFrame is recreated on [algorithm, parameters, animate];
\*   generateArt on [algorithm, parameters, setupCanvas <- width];
\*   the parameter effect runs on [parameters, lastParameters, autoRegenerate,
\*   generateArt]; the start/stop effect on [animate, animateFrame, generateArt].
\* Cleanups of the effects whose dependencies changed run first, then the
\* effect bodies in declaration order.
Rerender(na, np, pNew, nan, nar, nw, pre) ==
  LET frameChanged == na # selectedAlgorithm \/ pNew \/ nan # animate
      genChanged   == na # selectedAlgorithm \/ pNew \/ nw # width
      e3 == nan # animate \/ frameChanged \/ genChanged
      e2 == pNew \/ nar # autoRegenerate \/ genChanged
      \* cleanup of the start/stop effect
      anim1 == IF e3 THEN FALSE ELSE isAnimatingRef
      pend1 == IF e3 THEN CancelAnimationFrame(pending, animationRef) ELSE pending
      ref1  == IF e3 THEN NoHandle ELSE animationRef
      \* parameter-change effect
      changed == e2 /\ nar /\ np # lastParameters
      regen   == e2 /\ ParameterEffectRegenerates(nar, np, anim1)
      \* start/stop effect
      start == e3 /\ nan
  IN \E t2 \in Outcomes(regen /\ na # Null), t3 \in Outcomes(e3 /\ na # Null) :
       /\ lastParameters' = IF changed THEN np ELSE lastParameters
       /\ isAnimatingRef' = IF e3 THEN nan ELSE anim1
       /\ animationRef' = IF start THEN RequestHandle(pend1, animationRef) ELSE ref1
       /\ pending' = IF start
                     THEN RequestAnimationFrame(pend1, animationRef, na, np, nan)
                     ELSE pend1
       /\ log' = pre \o (IF regen THEN generateArt(na, np, t2) ELSE <<>>)
                     \o (IF e3 THEN generateArt(na, np, t3) ELSE <<>>)

\* the props reach ArtCanvas only while it is mounted
Render(na, np, pNew, nan, nar, nw, pre) ==
  IF mounted
  THEN Rerender(na, np, pNew, nan, nar, nw, pre)
  ELSE /\ log' = pre
       /\ UNCHANGED <<lastParameters, animationRef, isAnimatingRef, pending>>

\* ------------------------------------------------- render loop: the events
\* ArtCanvas mounts (GenerativeArt shows the creation studio): first render,
\* onCanvasRef hands the element up, the start/stop effect runs
Mount ==
  /\ ~mounted /\ tick = {}
  /\ mounted' = TRUE
  /\ canvasRef' = TRUE
  /\ lastParameters' = parameters
  /\ \E t \in Outcomes(selectedAlgorithm # Null) :
       log' = generateArt(selectedAlgorithm, parameters, t)
  /\ isAnimatingRef' = animate
  /\ animationRef' = IF animate THEN RequestHandle(pending, NoHandle) ELSE NoHandle
  /\ pending' = IF animate
                THEN RequestAnimationFrame(pending, NoHandle, selectedAlgorithm,
                                           parameters, animate)
                ELSE pending
  /\ Op("mount")
  /\ UNCHANGED <<storeVars, propVars, tick>>

\* mutant: the start/stop effect returns no cleanup
Unmount_NoCleanup ==
  /\ mounted /\ tick = {}
  /\ mounted' = FALSE
  /\ lastParameters' = NoParams
  /\ log' = <<>>
  /\ Op("unmount")
  /\ UNCHANGED <<storeVars, propVars, tick, canvasRef, isAnimatingRef, pending,
                 animationRef>>

\* ArtCanvas unmounts (gallery shown): cleanup of the start/stop effect
Unmount ==
  /\ mounted /\ tick = {}
  /\ mounted' = FALSE
  /\ isAnimatingRef' = FALSE
  /\ pending' = CancelAnimationFrame(pending, animationRef)
  /\ animationRef' = NoHandle
  /\ lastParameters' = NoParams
  /\ log' = <<>>
  /\ Op("unmount")
  /\ UNCHANGED <<storeVars, propVars, tick, canvasRef>>

\* AlgorithmSelector.handleSelect
SelectAlgorithm ==
  \E a \in AlgorithmIds :
    /\ tick = {}
    /\ a \in BuiltInIds \/ FindCustom(a) = a
    /\ setSelectedAlgorithm(a)
    /\ Render(a, parameters', TRUE, animate, autoRegenerate, width, <<>>)
    /\ Op("selectAlgorithm")
    /\ UNCHANGED <<propVars, mounted, tick, canvasRef>>

\* GenerativeArt.handleParameterChange(paramId, value)
ParameterChange ==
  \E k \in ParameterIds(selectedAlgorithm), v \in Vals,
     t \in Outcomes(canvasRef /\ "autoGenerate" \in DOMAIN parameters) :
    /\ tick = {}
    /\ k \in DOMAIN parameters => parameters[k] # v
    /\ updateParameters([x \in {k} |-> v])
    /\ LET auto == "autoGenerate" \in DOMAIN parameters
                   /\ parameters["autoGenerate"] # 0
           pre  == IF auto THEN handleGenerate(selectedAlgorithm, parameters, t)
                   ELSE <<>>
       IN Render(selectedAlgorithm, parameters', TRUE, animate, autoRegenerate,
                 width, pre)
    /\ Op("parameterChange")
    /\ UNCHANGED <<propVars, mounted, tick, canvasRef>>

\* the Generate button (disabled without a selected algorithm)
Generate ==
  \E t \in Outcomes(canvasRef) :
    /\ tick = {}
    /\ selectedAlgorithm # Null
    /\ log' = handleGenerate(selectedAlgorithm, parameters, t)
    /\ Op("generate")
    /\ UNCHANGED <<storeVars, propVars, canvasVars>>

\* the parent changes the animate prop
SetAnimate ==
  \E b \in BOOLEAN :
    /\ tick = {}
    /\ b # animate
    /\ animate' = b
    /\ Render(selectedAlgorithm, parameters, FALSE, b, autoRegenerate, width, <<>>)
    /\ Op("setAnimate")
    /\ UNCHANGED <<storeVars, autoRegenerate, width, mounted, tick, canvasRef>>

\* the parent changes the autoRegenerate prop
SetAutoRegenerate ==
  \E b \in BOOLEAN :
    /\ tick = {}
    /\ b # autoRegenerate
    /\ autoRegenerate' = b
    /\ Render(selectedAlgorithm, parameters, FALSE, animate, b, width, <<>>)
    /\ Op("setAutoRegenerate")
    /\ UNCHANGED <<storeVars, animate, width, mounted, tick, canvasRef>>

\* the parent passes another width (window.innerWidth - 384 after a resize)
Resize ==
  \E w \in Widths :
    /\ tick = {}
    /\ w # width
    /\ width' = w
    /\ Render(selectedAlgorithm, parameters, FALSE, animate, autoRegenerate, w, <<>>)
    /\ Op("resize")
    /\ UNCHANGED <<storeVars, animate, autoRegenerate, mounted, tick, canvasRef>>

\* handleSaveCustomAlgorithm: the editor hands a compiled unit to the store
SaveCustom ==
  \E a \in FreshCustomIds :
    /\ tick = {}
    /\ saveCustomAlgorithm(a)
    /\ Render(a, parameters, FALSE, animate, autoRegenerate, width, <<>>)
    /\ Op("saveCustom")
    /\ UNCHANGED <<propVars, mounted, tick, canvasRef>>

\* AlgorithmSelector.handleDeleteAlgorithm
DeleteCustom ==
  \E i \in 1..Len(customAlgorithms) :
    /\ tick = {}
    /\ deleteCustomAlgorithm(customAlgorithms[i].id)
    /\ Render(selectedAlgorithm', parameters, FALSE, animate, autoRegenerate,
              width, <<>>)
    /\ Op("deleteCustom")
    /\ UNCHANGED <<propVars, mounted, tick, canvasRef>>

\* animateFrame, first half: the host fires a requested frame; the callback
\* returns at once when its closure has no algorithm, no canvas or animate
\* off, otherwise it calls draw
AnimationFrame ==
  \E c \in pending :
   \E t \in Outcomes(c.algorithm # Null /\ mounted /\ c.animate) :
    /\ tick = {}
    /\ pending' = pending \ {c}
    /\ IF c.algorithm = Null \/ ~mounted \/ ~c.animate
       THEN /\ log' = <<>>
            /\ UNCHANGED <<isAnimatingRef, tick>>
       ELSE /\ isAnimatingRef' = TRUE
            /\ tick' = {[closure |-> c, threw |-> t]}
            /\ log' = << DrawCall("tick", c.algorithm, c.parameters, t, FALSE, FALSE) >>
    /\ Op("animationFrame")
    /\ UNCHANGED <<storeVars, propVars, mounted, lastParameters, animationRef,
                   canvasRef>>

\* mutant: the next frame is requested in a finally block
AfterDraw_Retry(r) ==
  /\ animationRef' = RequestHandle(pending, animationRef)
  /\ pending' = RequestAnimationFrame(pending, animationRef, r.closure.algorithm,
                                      r.closure.parameters, r.closure.animate)
  /\ isAnimatingRef' = ~r.threw

\* what animateFrame does once draw has returned or thrown
AfterDraw(r) ==
  IF r.threw
  THEN /\ isAnimatingRef' = FALSE
       /\ UNCHANGED <<animationRef, pending>>
  ELSE /\ animationRef' = RequestHandle(pending, animationRef)
       /\ pending' = RequestAnimationFrame(pending, animationRef,
                                           r.closure.algorithm,
                                           r.closure.parameters,
                                           r.closure.animate)
       /\ UNCHANGED isAnimatingRef

\* animateFrame, second half: draw has returned (the next frame is requested)
\* or has thrown (the error is logged and the loop stops)
AnimationFrameReturn ==
  \E r \in tick :
    /\ tick' = {}
    /\ AfterDraw(r)
    /\ Op("animationFrameReturn")
    /\ UNCHANGED <<storeVars, propVars, mounted, lastParameters, canvasRef, log>>

LoopNext ==
  \/ Mount
  \/ Unmount
  \/ SelectAlgorithm
  \/ ParameterChange
  \/ Generate
  \/ SetAnimate
  \/ SetAutoRegenerate
  \/ Resize
  \/ SaveCustom
  \/ DeleteCustom
  \/ AnimationFrame
  \/ AnimationFrameReturn

\* ------------------------------------------------- flow field: shared state
MaxParticles == 2

Surfaces == {"canvas-1", "canvas-2"}

\* the ParameterValues a flow-field draw call reads here: the particle count
\* (in units of the control's step), the clearCanvas switch and, for the
\* values the particles' methods read, the edge policy
FlowParams == [particleCount : 1..MaxParticles, clearCanvas : 0..1, loopEdges : 0..1]

\* lastParams: {} of a new global store
NoFlowParams == [particleCount |-> 0, clearCanvas |-> 0, loopEdges |-> 0]

FlowInit ==
  /\ flowFieldGlobalStore = [defined |-> FALSE, lastParams |-> NoFlowParams]
  /\ flowFieldParticles = [defined |-> FALSE, pool |-> <<>>]
  /\ flowDraw = [surface |-> "none", params |-> NoFlowParams,
                 previous |-> NoFlowParams, calls |-> 0,
                 paramsChanged |-> FALSE, cleared |-> FALSE, painted |-> {}]

\* new Particle(i) inside a draw call: the instance closes over that call's
\* canvas, ctx and params
Particle(i, canvas, params) ==
  [id |-> i, canvas |-> canvas, params |-> params]

\* mutant: every call builds the whole pool anew
ResizedPool_Rebuilt(canvas, params) ==
  [i \in 1..params.particleCount |-> Particle(i - 1, canvas, params)]

\* the pool a draw call on canvas with params works on: the global array,
\* created when absent, grown with new particles or cut to the first
\* particleCount
ResizedPool(canvas, params) ==
  LET n == params.particleCount
      g == IF flowFieldParticles.defined
           THEN flowFieldParticles.pool
           ELSE [i \in 1..n |-> Particle(i - 1, canvas, params)]
  IN IF Len(g) < n
     THEN [i \in 1..n |-> IF i <= Len(g) THEN g[i]
                          ELSE Particle(i - 1, canvas, params)]
     ELSE IF Len(g) > n THEN SubSeq(g, 1, n)
     ELSE g

\* flowFieldAlgorithm.draw(canvas, params); flowDraw records the call, the
\* ParameterValues of the call before it and whether there was one
FlowFieldDraw ==
  \E canvas \in Surfaces, params \in FlowParams :
    LET lastParams == flowFieldGlobalStore.lastParams
        paramsChanged == params # lastParams
        clear == paramsChanged /\ params.clearCanvas # 0
        particles == ResizedPool(canvas, params)
    IN /\ flowFieldGlobalStore' =
            [defined |-> TRUE,
             lastParams |-> IF clear THEN params ELSE lastParams]
       /\ flowFieldParticles' = [defined |-> TRUE, pool |-> particles]
       /\ flowDraw' = [surface |-> canvas, params |-> params,
                       previous |-> flowDraw.params,
                       calls |-> IF flowDraw.calls < 2 THEN flowDraw.calls + 1
                                 ELSE 2,
                       paramsChanged |-> paramsChanged, cleared |-> clear,
                       painted |-> {canvas} \cup
                                   {particles[i].canvas : i \in 1..Len(particles)}]
       /\ op' = "flowFieldDraw"
       /\ UNCHANGED <<storeVars, propVars, canvasVars, log, editorVars, pureVars>>

FlowNext == FlowFieldDraw

\* ------------------------------------------------- custom algorithm editor
MaxEdParams == 6

\* what becomes of the source text: it compiles and runs, it does not compile
\* (new Function throws a SyntaxError), or it compiles and throws when run
CodeKinds == {"ok", "syntaxError", "runtimeError"}

\* `param${n}`
ParamIdPool == <<"param1", "param2", "param3", "param4", "param5", "param6",
                 "param7", "param8">>

\* ids typed into the ID field of a parameter card
TypedIds == {"rows"}

defaultParameters ==
  << [id |-> "rows", default |-> 1], [id |-> "cols", default |-> 1],
     [id |-> "size", default |-> 1], [id |-> "backgroundColor", default |-> 0] >>

\* the effect on [parameters]: every id mapped to its default, a later entry
\* with the same id overwriting an earlier one
DefaultValues(ps) ==
  LET ids == {ps[i].id : i \in 1..Len(ps)}
      last(k) == CHOOSE i \in 1..Len(ps) :
                   /\ ps[i].id = k
                   /\ \A j \in 1..Len(ps) : ps[j].id = k => j <= i
  IN [k \in ids |-> ps[last(k)].default]

\* the state of a newly mounted editor, its first effect included
EditorMounted ==
  /\ code' = "ok"
  /\ editorParameters' = defaultParameters
  /\ currentValues' = DefaultValues(defaultParameters)
  /\ previewError' = "none"

EditorInit ==
  /\ showCustomEditor = FALSE
  /\ code = "ok"
  /\ editorParameters = defaultParameters
  /\ currentValues = DefaultValues(defaultParameters)
  /\ previewError = "none"
  /\ onSaveArg = <<>>

\* mutant: a function is returned whatever the text
createAlgorithmFunction_Always == code

\* createAlgorithmFunction: null when the text does not compile
createAlgorithmFunction == IF code = "syntaxError" THEN Null ELSE code

\* previewAlgorithm of a render whose currentValues is values
previewAlgorithm(values) ==
  IF createAlgorithmFunction = Null
  THEN /\ previewError' = "syntax"
       /\ log' = <<>>
  ELSE /\ previewError' = IF code = "runtimeError" THEN "runtime" ELSE "none"
       /\ log' = << DrawCall("preview", "editor", values, code = "runtimeError",
                             code = "runtimeError", FALSE) >>

\* "Create Custom Algorithm"
OpenEditor ==
  /\ ~showCustomEditor
  /\ showCustomEditor' = TRUE
  /\ EditorMounted
  /\ log' = <<>>
  /\ onSaveArg' = <<>>
  /\ op' = "openEditor"
  /\ UNCHANGED <<storeVars, propVars, canvasVars, flowVars, pureVars>>

\* the modal's onClose: the editor unmounts and its state is gone
CloseEditor ==
  /\ showCustomEditor
  /\ showCustomEditor' = FALSE
  /\ EditorMounted
  /\ log' = <<>>
  /\ op' = "closeEditor"
  /\ UNCHANGED <<storeVars, propVars, canvasVars, flowVars, pureVars, onSaveArg>>

SetCode ==
  \E c \in CodeKinds :
    /\ showCustomEditor
    /\ c # code
    /\ code' = c
    /\ log' = <<>>
    /\ op' = "setCode"
    /\ UNCHANGED <<storeVars, propVars, canvasVars, flowVars, pureVars, showCustomEditor,
                   editorParameters, currentValues, previewError, onSaveArg>>

\* every change of the parameter list re-runs the effect that resets
\* currentValues to the defaults
SetParameters(ps) ==
  /\ editorParameters' = ps
  /\ currentValues' = DefaultValues(ps)
  /\ log' = <<>>
  /\ UNCHANGED <<storeVars, propVars, canvasVars, flowVars, pureVars, showCustomEditor,
                 code, previewError, onSaveArg>>

addParameter ==
  Append(editorParameters,
         [id |-> ParamIdPool[Len(editorParameters) + 1], default |-> 1])

AddParameter ==
  /\ showCustomEditor
  /\ Len(editorParameters) < MaxEdParams
  /\ SetParameters(addParameter)
  /\ op' = "addParameter"

editParameter(index, id) ==
  [editorParameters EXCEPT ![index].id = id]

EditParameter ==
  \E index \in 1..Len(editorParameters), id \in TypedIds :
    /\ showCustomEditor
    /\ editorParameters[index].id # id
    /\ SetParameters(editParameter(index, id))
    /\ op' = "editParameter"

deleteParameter(index) ==
  [j \in 1..(Len(editorParameters) - 1) |->
     IF j < index THEN editorParameters[j] ELSE editorParameters[j + 1]]

DeleteParameter ==
  \E index \in 1..Len(editorParameters) :
    /\ showCustomEditor
    /\ SetParameters(deleteParameter(index))
    /\ op' = "deleteParameter"

\* handleParameterChange(paramId, value): previewAlgorithm is the one of the
\* render that made the handler, it reads that render's currentValues
EditorParameterChange ==
  \E k \in DOMAIN currentValues, v \in Vals :
    /\ showCustomEditor
    /\ currentValues[k] # v
    /\ currentValues' = Spread(currentValues, [x \in {k} |-> v])
    /\ previewAlgorithm(currentValues)
    /\ op' = "editorParameterChange"
    /\ UNCHANGED <<storeVars, propVars, canvasVars, flowVars, pureVars, showCustomEditor,
                   code, editorParameters, onSaveArg>>

\* the Preview button
Preview ==
  /\ showCustomEditor
  /\ previewAlgorithm(currentValues)
  /\ op' = "preview"
  /\ UNCHANGED <<storeVars, propVars, canvasVars, flowVars, pureVars, showCustomEditor,
                 code, editorParameters, currentValues, onSaveArg>>

\* handleSave: without a compiled function the error is shown and onSave is
\* not called; otherwise onSave = GenerativeArt.handleSaveCustomAlgorithm
\* stores the unit and closes the editor
HandleSave ==
  /\ showCustomEditor
  /\ IF createAlgorithmFunction = Null
     THEN /\ previewError' = "save"
          /\ log' = <<>>
          /\ UNCHANGED <<storeVars, showCustomEditor, code, editorParameters,
                         currentValues, onSaveArg>>
     ELSE \E a \in FreshCustomIds :
            /\ onSaveArg' = << [id |-> a, parameters |-> editorParameters] >>
            /\ saveCustomAlgorithm(a)
            /\ showCustomEditor' = FALSE
            /\ EditorMounted
            /\ log' = <<>>
  /\ op' = "handleSave"
  /\ UNCHANGED <<propVars, canvasVars, flowVars, pureVars>>

\* AlgorithmSelector: select, or delete a custom unit, beside the editor
EditorSelect ==
  /\ ~showCustomEditor
  /\ SetSelectedAlgorithm

EditorDelete ==
  /\ ~showCustomEditor
  /\ DeleteCustomAlgorithm

\* the editor's code, preview and save, on the default parameter list
EditorNext ==
  \/ OpenEditor
  \/ CloseEditor
  \/ SetCode
  \/ EditorParameterChange
  \/ Preview
  \/ HandleSave
  \/ EditorSelect
  \/ EditorDelete

\* the editor's parameter list and save, on the template code
EditorListNext ==
  \/ OpenEditor
  \/ CloseEditor
  \/ AddParameter
  \/ EditParameter
  \/ DeleteParameter
  \/ HandleSave
  \/ EditorDelete

\* ------------------------------------------------------- cellular automata
MaxLive == 2
MaxSteps == 2

\* the canvas sizes in cells, <<rows, cols>>, of the calls looked at
GridSizes == {<<4, 5>>, <<3, 4>>}

\* rows = floor(canvas.height / cellSize), cols = floor(canvas.width / cellSize)
GridRows == caSize[1]
GridCols == caSize[2]
Cells == (0..(GridRows - 1)) \X (0..(GridCols - 1))

\* the keys of updateFunctions
Rules == {"gameOfLife", "briansBrain", "wireWorld", "elementary"}

\* the ParameterValues a draw call reads here; "unknown" is a rule value that
\* is not among the declared options
CAParams ==
  [rule : Rules \cup {"unknown"}, stepsPerFrame : 1..MaxSteps,
   elementaryRule : {30, 110}, wrap : BOOLEAN, symmetry : BOOLEAN]

\* the sets of cells for which Math.random() < initialDensity held
RECURSIVE LiveSets(_)
LiveSets(n) ==
  IF n = 0 THEN {{}}
  ELSE LiveSets(n - 1) \cup {S \cup {c} : S \in LiveSets(n - 1), c \in Cells}

EmptyGrid == [c \in Cells |-> 0]

\* the initial grid: random cells, the right half mirrored with symmetry, and
\* for the elementary rule a single cell in the middle of the top row
InitialGrid(live, params) ==
  IF params.rule = "elementary"
  THEN [c \in Cells |-> IF c = <<0, GridCols \div 2>> THEN 1 ELSE 0]
  ELSE [c \in Cells |->
          LET y == c[1]
              x == c[2]
              src == IF params.symmetry /\ 2 * x > GridCols
                     THEN <<y, GridCols - x - 1>> ELSE c
          IN IF src \in live THEN 1 ELSE 0]

\* the number of the eight neighbours of (y, x) whose value is 1
Neighbors(grid, y, x, wrap) ==
  LET D == {d \in (-1..1) \X (-1..1) : d # <<0, 0>>}
      at(d) == IF wrap
               THEN <<(y + d[2] + GridRows) % GridRows,
                      (x + d[1] + GridCols) % GridCols>>
               ELSE <<y + d[2], x + d[1]>>
  IN Cardinality({d \in D : at(d) \in Cells /\ grid[at(d)] = 1})

\* mutant: a dead cell is born with two live neighbours as well
gameOfLife_BirthOnTwo(grid, params) ==
  [c \in Cells |->
     LET neighbors == Neighbors(grid, c[1], c[2], params.wrap)
     IN IF neighbors = 2 \/ neighbors = 3 THEN 1 ELSE 0]

gameOfLife(grid, params) ==
  [c \in Cells |->
     LET neighbors == Neighbors(grid, c[1], c[2], params.wrap)
     IN IF grid[c] = 1
        THEN (IF neighbors = 2 \/ neighbors = 3 THEN 1 ELSE 0)
        ELSE (IF neighbors = 3 THEN 1 ELSE 0)]

briansBrain(grid, params) ==
  [c \in Cells |->
     IF grid[c] = 1 THEN 2
     ELSE IF grid[c] = 2 THEN 0
     ELSE IF Neighbors(grid, c[1], c[2], params.wrap) = 2 THEN 1 ELSE 0]

\* the results of the conversion at the head of wireWorld: each 1 becomes a
\* head (Math.random() < 0.1) or a conductor, when grid[0][0] is 0 or 1
WireWorldConverted(grid) ==
  IF grid[<<0, 0>>] \in {0, 1}
  THEN LET ones == {c \in Cells : grid[c] = 1}
       IN {[c \in Cells |-> IF c \in ones /\ c \notin heads THEN 3 ELSE grid[c]]
             : heads \in SUBSET ones}
  ELSE {grid}

\* the switch of wireWorld; a value other than 0..3 leaves the filled 0
WireWorldNext(grid, params) ==
  [c \in Cells |->
     CASE grid[c] = 1 -> 2
       [] grid[c] = 2 -> 3
       [] grid[c] = 3 ->
            LET headCount == Neighbors(grid, c[1], c[2], params.wrap)
            IN IF headCount = 1 \/ headCount = 2 THEN 1 ELSE 3
       [] OTHER -> 0]

\* ruleTable[7 - idx]: the bit of weight 2^idx of the rule number
RuleBit(rule, idx) == (rule \div (2 ^ idx)) % 2

elementary(grid, params) ==
  LET bottom == GridRows - 1
      left(x) == IF x = 0
                 THEN (IF params.wrap THEN grid[<<bottom, GridCols - 1>>] ELSE 0)
                 ELSE grid[<<bottom, x - 1>>]
      right(x) == IF x = GridCols - 1
                  THEN (IF params.wrap THEN grid[<<bottom, 0>>] ELSE 0)
                  ELSE grid[<<bottom, x + 1>>]
      idx(x) == 4 * left(x) + 2 * grid[<<bottom, x>>] + right(x)
  IN [c \in Cells |->
        IF c[1] < bottom THEN grid[<<c[1] + 1, c[2]>>]
        ELSE RuleBit(params.elementaryRule, idx(c[2]))]

\* one pass of the simulation loop, grid = updateFunctions[params.rule](grid):
\* the grid it was given, the grid after the in-place conversion, the result
UpdateSteps(grid, params) ==
  CASE params.rule = "gameOfLife" ->
         {[before |-> grid, input |-> grid, output |-> gameOfLife(grid, params)]}
    [] params.rule = "briansBrain" ->
         {[before |-> grid, input |-> grid, output |-> briansBrain(grid, params)]}
    [] params.rule = "wireWorld" ->
         {[before |-> grid, input |-> g, output |-> WireWorldNext(g, params)]
            : g \in WireWorldConverted(grid)}
    [] params.rule = "elementary" ->
         {[before |-> grid, input |-> grid, output |-> elementary(grid, params)]}

\* the runs of the simulation loop: n passes from grid
RECURSIVE Simulation(_, _, _)
Simulation(grid, params, n) ==
  IF n = 0 THEN {<<>>}
  ELSE UNION {{<<s>> \o rest : rest \in Simulation(s.output, params, n - 1)}
                : s \in UpdateSteps(grid, params)}

\* no draw call in sight
CAInit ==
  /\ caSize = <<4, 5>>
  /\ caDraw = [called |-> FALSE, params |-> [rule |-> "gameOfLife",
              stepsPerFrame |-> 1, elementaryRule |-> 30, wrap |-> FALSE,
              symmetry |-> FALSE],
            seed |-> EmptyGrid, steps |-> <<>>, threw |-> FALSE]

\* a draw call has been entered: its params, and the grid its initialisation
\* has filled
CAEntered ==
  \E size \in GridSizes :
    /\ caSize = size
    /\ \E params \in CAParams, live \in LiveSets(MaxLive) :
         caDraw = [called |-> FALSE, params |-> params,
                   seed |-> InitialGrid(live, params), steps |-> <<>>,
                   threw |-> FALSE]

\* cellularAutomataAlgorithm.draw(canvas, params) from the simulation loop on;
\* a rule that is no key of updateFunctions makes the first pass call undefined
CellularAutomataDraw ==
  /\ ~caDraw.called
  /\ IF caDraw.params.rule \notin Rules
     THEN caDraw' = [caDraw EXCEPT !.called = TRUE, !.threw = TRUE]
     ELSE \E run \in Simulation(caDraw.seed, caDraw.params,
                                caDraw.params.stepsPerFrame) :
            caDraw' = [caDraw EXCEPT !.called = TRUE, !.steps = run]
  /\ op' = "cellularAutomataDraw"
  /\ UNCHANGED <<appVars, lookup, caSize, followCall, voronoiDraw,
                 mandalaDraw, lSystem, particleUpdate, tutorial>>

CANext == CellularAutomataDraw

\* the random draws that make the standard glider, as <<row, column>>
Glider == {<<0, 1>>, <<1, 2>>, <<2, 0>>, <<2, 1>>, <<2, 2>>}

\* the generations a glider needs to reappear one cell further
GliderPeriod == 4

\* a gameOfLife draw call has been entered on a grid of 5 by 5 cells, with a
\* few random live cells or with the glider
LifeEntered ==
  /\ caSize = <<5, 5>>
  /\ \E wrap \in BOOLEAN, symmetry \in BOOLEAN,
        stepsPerFrame \in (1..MaxSteps) \cup {GliderPeriod},
        live \in LiveSets(MaxLive) \cup {Glider} :
       LET params == [rule |-> "gameOfLife", stepsPerFrame |-> stepsPerFrame,
                      elementaryRule |-> 30, wrap |-> wrap,
                      symmetry |-> symmetry]
       IN caDraw = [called |-> FALSE, params |-> params,
                    seed |-> InitialGrid(live, params), steps |-> <<>>,
                    threw |-> FALSE]

\* --------------------------------------------- declared parameters (built-ins)
\* An AlgorithmParameter of type number or range: default, min and max as
\* integers in units of 1/den
NumberParameter(id, type, den, default, min, max) ==
  [id |-> id, type |-> type, den |-> den, default |-> default, min |-> min,
   max |-> max, choice |-> "", options |-> {}]

\* An AlgorithmParameter of type select: its default and its options' values
SelectParameter(id, default, options) ==
  [id |-> id, type |-> "select", den |-> 1, default |-> 0, min |-> 0,
   max |-> 0, choice |-> default, options |-> options]

\* An AlgorithmParameter of type color or boolean
PlainParameter(id, type, default) ==
  [id |-> id, type |-> type, den |-> 1, default |-> 0, min |-> 0, max |-> 0,
   choice |-> default, options |-> {}]

\* part_000, lines 224-399
flowFieldParameters ==
  << NumberParameter("particleCount", "number", 1, 2000, 100, 10000),
     SelectParameter("particleStyle", "lines", {"lines", "circles", "points", "curves"}),
     NumberParameter("flowScale", "range", 10000, 30, 1, 500),
     PlainParameter("animated", "boolean", "true"),
     NumberParameter("animationSpeed", "range", 1000, 2, 0, 10),
     NumberParameter("particleSpeed", "range", 10, 20, 2, 80),
     NumberParameter("particleLifetime", "number", 1, -1, -1, 500),
     NumberParameter("lineWidth", "range", 10, 10, 1, 50),
     PlainParameter("loopEdges", "boolean", "true"),
     PlainParameter("primaryColor", "color", "#ffffff"),
     PlainParameter("backgroundColor", "color", "#000000"),
     NumberParameter("opacity", "range", 1, 5, 1, 100),
     NumberParameter("flowForce", "range", 10, 10, 1, 100),
     NumberParameter("noiseDetail", "range", 1, 8, 1, 16),
     NumberParameter("noiseVariation", "range", 10, 10, 1, 100),
     SelectParameter("flowFieldStyle", "perlin", {"perlin", "circular", "radial", "turbulent"}),
     SelectParameter("colorMode", "solid", {"solid", "flow", "speed", "position"}),
     PlainParameter("clearCanvas", "boolean", "true") >>

\* particleSystem.ts, lines 11-108
particleSystemParameters ==
  << NumberParameter("particleCount", "number", 1, 500, 50, 2000),
     NumberParameter("particleSize", "range", 1, 2, 1, 10),
     NumberParameter("gravity", "range", 10, 1, -10, 10),
     NumberParameter("windForce", "range", 1, 0, -1, 1),
     NumberParameter("attraction", "range", 10, 0, -5, 5),
     NumberParameter("velocityDamping", "range", 100, 99, 90, 100),
     PlainParameter("showTrails", "boolean", "true"),
     NumberParameter("trailFade", "range", 100, 5, 1, 20),
     SelectParameter("colorMode", "velocity", {"velocity", "position", "static"}),
     PlainParameter("staticColor", "color", "#ffffff") >>

\* mutant: stepsPerFrame declared with default 0
cellularAutomataParameters_ZeroSteps ==
  << SelectParameter("rule", "gameOfLife", {"gameOfLife", "briansBrain", "wireWorld", "elementary"}),
     NumberParameter("cellSize", "range", 1, 5, 1, 20),
     NumberParameter("initialDensity", "range", 10, 3, 1, 9),
     NumberParameter("stepsPerFrame", "number", 1, 0, 1, 10),
     PlainParameter("primaryColor", "color", "#00FF00"),
     PlainParameter("secondaryColor", "color", "#0000FF"),
     PlainParameter("backgroundColor", "color", "#000000"),
     NumberParameter("elementaryRule", "number", 1, 30, 0, 255),
     PlainParameter("wrap", "boolean", "true"),
     PlainParameter("symmetry", "boolean", "false") >>

\* part_001, lines 11-100
cellularAutomataParameters ==
  << SelectParameter("rule", "gameOfLife", {"gameOfLife", "briansBrain", "wireWorld", "elementary"}),
     NumberParameter("cellSize", "range", 1, 5, 1, 20),
     NumberParameter("initialDensity", "range", 10, 3, 1, 9),
     NumberParameter("stepsPerFrame", "number", 1, 1, 1, 10),
     PlainParameter("primaryColor", "color", "#00FF00"),
     PlainParameter("secondaryColor", "color", "#0000FF"),
     PlainParameter("backgroundColor", "color", "#000000"),
     NumberParameter("elementaryRule", "number", 1, 30, 0, 255),
     PlainParameter("wrap", "boolean", "true"),
     PlainParameter("symmetry", "boolean", "false") >>

\* part_001, lines 393-503
mandalaParameters ==
  << SelectParameter("patternType", "spirograph", {"spirograph", "rose", "mandala", "epitrochoid"}),
     NumberParameter("radius1", "range", 1, 100, 20, 300),
     NumberParameter("radius2", "range", 1, 50, 10, 200),
     NumberParameter("offset", "range", 1, 50, 0, 100),
     NumberParameter("rotations", "number", 1, 360, 1, 3600),
     NumberParameter("symmetry", "number", 1, 6, 2, 24),
     NumberParameter("strokeWidth", "range", 10, 10, 5, 50),
     SelectParameter("colorMode", "gradient", {"gradient", "rainbow", "monochrome"}),
     PlainParameter("baseColor", "color", "#ffffff"),
     PlainParameter("backgroundColor", "color", "#000000"),
     NumberParameter("steps", "range", 1, 1000, 100, 5000) >>

\* part_001, lines 697-797
lSystemParameters ==
  << SelectParameter("preset", "plant", {"plant", "tree", "dragon", "sierpinski", "koch", "custom"}),
     SelectParameter("axiom", "F", {"F", "X", "FX", "A"}),
     NumberParameter("iterations", "number", 1, 4, 1, 6),
     NumberParameter("angle", "range", 1, 25, 5, 90),
     NumberParameter("lineLength", "range", 1, 5, 1, 20),
     NumberParameter("lineWidth", "range", 10, 10, 5, 30),
     NumberParameter("thinning", "range", 100, 75, 50, 100),
     PlainParameter("color", "color", "#00AA00"),
     PlainParameter("backgroundColor", "color", "#000000"),
     PlainParameter("useGradient", "boolean", "true") >>

\* part_001, lines 1026-1127
voronoiParameters ==
  << NumberParameter("pointCount", "number", 1, 20, 3, 200),
     SelectParameter("displayMode", "voronoi", {"voronoi", "delaunay", "points", "combined"}),
     SelectParameter("colorMode", "random", {"random", "distance", "gradient", "monochrome"}),
     PlainParameter("edgeColor", "color", "#FFFFFF"),
     NumberParameter("edgeWidth", "range", 1, 1, 0, 5),
     PlainParameter("backgroundColor", "color", "#000000"),
     PlainParameter("baseColor", "color", "#3366FF"),
     NumberParameter("pointSize", "range", 1, 4, 0, 10),
     SelectParameter("pointDistribution", "random", {"random", "grid", "circular", "clustered"}),
     NumberParameter("relaxation", "number", 1, 0, 0, 10) >>

\* algorithm.parameters of a built-in unit
DeclaredParameters(unit) ==
  CASE unit = "flow-field" -> flowFieldParameters
    [] unit = "particle-system" -> particleSystemParameters
    [] unit = "mandala" -> mandalaParameters
    [] unit = "cellular-automata" -> cellularAutomataParameters
    [] unit = "l-system" -> lSystemParameters
    [] unit = "voronoi" -> voronoiParameters

\* ---------------------------------------------------- registry and catalog
MaxCatalog == 3

\* the registry's array of all available algorithms
allAlgorithms ==
  << "flow-field", "particle-system", "mandala", "cellular-automata",
     "l-system", "voronoi" >>

\* allAlgorithms.find((algo) => algo.id === algorithmId) || null
getAlgorithmById(algorithmId) ==
  IF \E i \in 1..Len(allAlgorithms) : allAlgorithms[i] = algorithmId
  THEN algorithmId ELSE Null

\* AlgorithmSelector: the built-in algorithms it lists
builtInAlgorithms ==
  << "flow-field", "particle-system", "mandala", "cellular-automata",
     "l-system", "voronoi" >>

\* [...builtInAlgorithms, ...customAlgorithms]
availableAlgorithms ==
  builtInAlgorithms \o [i \in 1..Len(customAlgorithms) |-> customAlgorithms[i].id]

\* the ids a lookup is made with: built-in, custom, and one that names nothing
LookupIds ==
  {allAlgorithms[i] : i \in 1..Len(allAlgorithms)}
    \cup {CustomIdPool[i] : i \in 1..MaxCatalog} \cup {"no-such-id"}

RegistryInit == lookup = [id |-> "none", found |-> Null]

GetAlgorithmById ==
  \E id \in LookupIds :
    /\ lookup' = [id |-> id, found |-> getAlgorithmById(id)]
    /\ op' = "getAlgorithmById"
    /\ UNCHANGED <<appVars, caDraw, caSize, followCall, voronoiDraw,
                 mandalaDraw, lSystem, particleUpdate, tutorial>>

\* the editor hands over a unit with a new id
CatalogSave ==
  \E i \in 1..MaxCatalog :
    /\ FindCustom(CustomIdPool[i]) = Null
    /\ saveCustomAlgorithm(CustomIdPool[i])
    /\ Op("saveCustomAlgorithm")
    /\ UNCHANGED <<propVars, canvasVars, log>>

CatalogNext ==
  \/ CatalogSave
  \/ DeleteCustomAlgorithm
  \/ GetAlgorithmById

\* ------------------------------------------- flow field: Particle.follow
\* the largest number of columns and of rows of the flow field looked at
MaxGrid == 2

\* const scl = 20: the size of a flow field cell
scl == 20

\* canvas widths and heights: whole numbers of cells, and half a cell more
CanvasExtents == {scl * n + r : n \in 1..MaxGrid, r \in {0, 10}}

\* where a particle can be when follow runs: update leaves it within the
\* canvas, both edges included, when loopEdges wraps it, and up to 10 outside
\* when it does not; the positions looked at are the multiples of 5
ParticlePositions(extent, loopEdges) ==
  {v \in (IF loopEdges THEN 0 ELSE -10)..(IF loopEdges THEN extent ELSE extent + 10) :
     v % 5 = 0}

\* no force: follow left vx and vy alone
NoForce == <<-1, -1>>

\* the flow field of a canvas: flowField[x + y * cols] holds the vector
\* calculated for cell (x, y), written here as the cell itself
flowField(canvasWidth, canvasHeight) ==
  LET cols == canvasWidth \div scl
      rows == canvasHeight \div scl
  IN [index \in 0..(cols * rows - 1) |-> <<index % cols, index \div cols>>]

\* Particle.follow: the force applied to a particle at (px, py)
follow(px, py, canvasWidth, canvasHeight) ==
  LET cols == canvasWidth \div scl
      field == flowField(canvasWidth, canvasHeight)
      x == px \div scl
      y == py \div scl
      index == x + y * cols
  IN IF index >= 0 /\ index < Cardinality(DOMAIN field)
     THEN field[index]
     ELSE NoForce

FollowInit ==
  followCall = [called |-> FALSE, width |-> scl, height |-> scl,
                x |-> 0, y |-> 0, force |-> NoForce]

\* a particle of an animated frame is about to follow the field
FollowEntered ==
  \E canvasWidth \in CanvasExtents, canvasHeight \in CanvasExtents,
     loopEdges \in BOOLEAN :
    \E px \in ParticlePositions(canvasWidth, loopEdges),
       py \in ParticlePositions(canvasHeight, loopEdges) :
      followCall = [called |-> FALSE, width |-> canvasWidth,
                    height |-> canvasHeight, x |-> px, y |-> py,
                    force |-> NoForce]

ParticleFollow ==
  /\ ~followCall.called
  /\ followCall' = [followCall EXCEPT
                      !.called = TRUE,
                      !.force = follow(followCall.x, followCall.y,
                                       followCall.width, followCall.height)]
  /\ op' = "follow"
  /\ UNCHANGED <<appVars, caDraw, lookup, caSize, voronoiDraw, mandalaDraw,
                 lSystem, particleUpdate, tutorial>>

FollowNext == ParticleFollow

\* ------------------------------------------------ voronoi: seed points
\* the largest pointCount and number of relaxation iterations looked at
MaxPoints == 20
MaxRelax == 2

\* the smallest pointCount the control delivers
MinPoints == 3

Distributions == {"random", "grid", "circular", "clustered"}

VoronoiParams ==
  [pointCount : MinPoints..MaxPoints,
   pointDistribution : Distributions \cup {"unknown"},
   relaxation : 0..MaxRelax]

\* Math.ceil(a / b) and Math.ceil(Math.sqrt(n)) for positive integers
CeilDiv(a, b) == (a + b - 1) \div b
CeilSqrt(n) == CHOOSE c \in 0..n : c * c >= n /\ (c = 0 \/ (c - 1) * (c - 1) < n)

Min2(a, b) == IF a < b THEN a ELSE b

\* a seed point is written as the place in the generation code that pushed
\* it (its coordinates are random); relaxed counts the relaxation rounds that
\* replaced it
SeedPoint(kind, i, j) == [kind |-> kind, i |-> i, j |-> j, relaxed |-> 0]

\* case "grid": rows of cols jittered cells, the inner loop broken off
\* once pointCount points exist
GridPoints(n) ==
  LET cols == CeilSqrt(n)
      rows == CeilDiv(n, cols)
      count == Min2(rows * cols, n)
  IN [k \in 1..count |-> SeedPoint("grid", (k - 1) \div cols, (k - 1) % cols)]

\* Math.floor(((pointCount - 1) * (ring / rings)) / rings)
pointsInRing(n, ring, rings) == ((n - 1) * ring) \div (rings * rings)

RECURSIVE RingPoints(_, _, _)
\* the points pushed by the rings ring..rings
RingPoints(n, ring, rings) ==
  IF ring > rings THEN <<>>
  ELSE [i \in 1..pointsInRing(n, ring, rings) |-> SeedPoint("ring", ring, i - 1)]
       \o RingPoints(n, ring + 1, rings)

\* case "circular": the centre point, then the rings
CircularPoints(n) ==
  LET rings == Min2(5, CeilDiv(n, 10))
  IN <<SeedPoint("center", 0, 0)>> \o RingPoints(n, 1, rings)

\* case "clustered" and case "random" / default: one push per i < pointCount
ClusteredPoints(n) == [k \in 1..n |-> SeedPoint("cluster", k - 1, 0)]
RandomPoints(n) == [k \in 1..n |-> SeedPoint("random", k - 1, 0)]

GeneratedPoints(params) ==
  CASE params.pointDistribution = "grid" -> GridPoints(params.pointCount)
    [] params.pointDistribution = "circular" -> CircularPoints(params.pointCount)
    [] params.pointDistribution = "clustered" -> ClusteredPoints(params.pointCount)
    [] OTHER -> RandomPoints(params.pointCount)

RECURSIVE Relaxed(_, _)
\* params.relaxation rounds, each pushing one new point for every point
Relaxed(points, iterations) ==
  IF iterations <= 0 THEN points
  ELSE Relaxed([i \in 1..Len(points) |->
                  [points[i] EXCEPT !.relaxed = @ + 1]], iterations - 1)

VoronoiInit ==
  voronoiDraw = [called |-> FALSE,
                 params |-> [pointCount |-> MinPoints,
                             pointDistribution |-> "random", relaxation |-> 0],
                 generated |-> <<>>, points |-> <<>>]

\* a voronoi draw call has been entered
VoronoiEntered ==
  \E params \in VoronoiParams :
    voronoiDraw = [called |-> FALSE, params |-> params,
                   generated |-> <<>>, points |-> <<>>]

\* voronoiAlgorithm.draw up to the end of the relaxation
VoronoiDraw ==
  /\ ~voronoiDraw.called
  /\ LET generated == GeneratedPoints(voronoiDraw.params)
     IN voronoiDraw' = [voronoiDraw EXCEPT
                          !.called = TRUE,
                          !.generated = generated,
                          !.points = Relaxed(generated,
                                             voronoiDraw.params.relaxation)]
  /\ op' = "voronoiDraw"
  /\ UNCHANGED <<appVars, caDraw, lookup, caSize, followCall, mandalaDraw,
                 lSystem, particleUpdate, tutorial>>

VoronoiNext == VoronoiDraw

\* ------------------------------------------------ mandala: the curve loop
\* the largest rotations and steps value looked at, and the number of loop
\* iterations counted before the count starts again at 1
MaxRotations == 4
MaxDetail == 4
MaxIterations == 6

\* what the number field of a control delivers: Number(e.target.value) of
\* whatever was typed, min and max of the field not enforced (an emptied
\* field gives 0)
DeliveredRotations == (-2)..MaxRotations
DeliveredSteps == (-2)..MaxDetail

\* numbers of the loop: finite ones in units of (PI / 180) / |steps|, and
\* the values a division by zero produces
Finite(v) == [kind |-> "finite", v |-> v]
PosInfinity == [kind |-> "Infinity", v |-> 0]
NegInfinity == [kind |-> "-Infinity", v |-> 0]
NaN == [kind |-> "NaN", v |-> 0]

\* a <= b
Leq(a, b) ==
  CASE a.kind = "NaN" \/ b.kind = "NaN" -> FALSE
    [] a.kind = "-Infinity" \/ b.kind = "Infinity" -> TRUE
    [] a.kind = "Infinity" \/ b.kind = "-Infinity" -> FALSE
    [] OTHER -> a.v <= b.v

\* a + b; a finite value that has fallen below every value compared with is
\* written as -Infinity, which compares alike
Plus(a, b) ==
  CASE a.kind = "NaN" \/ b.kind = "NaN" -> NaN
    [] a.kind = "finite" /\ b.kind = "finite" ->
         IF a.v + b.v < -(MaxRotations + 1) * (MaxDetail + 1)
         THEN NegInfinity ELSE Finite(a.v + b.v)
    [] a.kind = "finite" -> b
    [] b.kind = "finite" -> a
    [] a.kind = b.kind -> a
    [] OTHER -> NaN

\* const totalRadians = (params.rotations * Math.PI) / 180
totalRadians(rotations, steps) ==
  IF steps = 0 THEN Finite(rotations)
  ELSE Finite(rotations * (IF steps < 0 THEN -steps ELSE steps))

\* const step = totalRadians / params.steps
step(rotations, steps) ==
  IF steps # 0 THEN Finite(IF steps < 0 THEN -rotations ELSE rotations)
  ELSE IF rotations > 0 THEN PosInfinity
  ELSE IF rotations < 0 THEN NegInfinity
  ELSE NaN

MandalaInit ==
  mandalaDraw = [phase |-> "idle", rotations |-> 1, steps |-> 1,
                 t |-> Finite(0), iterations |-> 0]

\* a mandala draw call has reached its curve loop: let t = 0
MandalaEntered ==
  \E rotations \in DeliveredRotations, steps \in DeliveredSteps :
    mandalaDraw = [phase |-> "loop", rotations |-> rotations, steps |-> steps,
                   t |-> Finite(0), iterations |-> 0]

\* one iteration: t <= totalRadians held, a point is drawn, t += step
MandalaLoopStep ==
  /\ mandalaDraw.phase = "loop"
  /\ Leq(mandalaDraw.t, totalRadians(mandalaDraw.rotations, mandalaDraw.steps))
  /\ mandalaDraw' =
       [mandalaDraw EXCEPT
          !.t = Plus(@, step(mandalaDraw.rotations, mandalaDraw.steps)),
          !.iterations = IF @ < MaxIterations THEN @ + 1 ELSE 1]
  /\ op' = "mandalaPoint"
  /\ UNCHANGED <<appVars, caDraw, lookup, caSize, followCall, voronoiDraw,
                 lSystem, particleUpdate, tutorial>>

\* t <= totalRadians fails: the loop is left and the rest of draw runs
MandalaLoopExit ==
  /\ mandalaDraw.phase = "loop"
  /\ ~Leq(mandalaDraw.t, totalRadians(mandalaDraw.rotations, mandalaDraw.steps))
  /\ mandalaDraw' = [mandalaDraw EXCEPT !.phase = "done"]
  /\ op' = "mandalaDraw"
  /\ UNCHANGED <<appVars, caDraw, lookup, caSize, followCall, voronoiDraw,
                 lSystem, particleUpdate, tutorial>>

MandalaNext ==
  \/ MandalaLoopStep
  \/ MandalaLoopExit

\* ------------------------------------------------ L-system: generateLSystem
\* the largest iteration count looked at for every preset; the koch preset is
\* taken up to the declared maximum of the iterations parameter
MaxIter == 3
DeclaredMaxIterations == 6

\* const presets: axiom and rules of each preset
presets ==
  [plant |->
     [axiom |-> <<"X">>,
      rules |-> [X |-> <<"F", "+", "[", "[", "X", "]", "-", "X", "]", "-",
                         "F", "[", "-", "F", "X", "]", "+", "X">>,
                 F |-> <<"F", "F">>]],
   tree |->
     [axiom |-> <<"F">>,
      rules |-> [F |-> <<"F", "F", "+", "[", "+", "F", "-", "F", "-", "F",
                         "]", "-", "[", "-", "F", "+", "F", "+", "F", "]">>]],
   dragon |->
     [axiom |-> <<"F", "X">>,
      rules |-> [X |-> <<"X", "+", "Y", "F", "+">>,
                 Y |-> <<"-", "F", "X", "-", "Y">>]],
   sierpinski |->
     [axiom |-> <<"F", "-", "G", "-", "G">>,
      rules |-> [F |-> <<"F", "-", "G", "+", "F", "+", "G", "-", "F">>,
                 G |-> <<"G", "G">>]],
   koch |->
     [axiom |-> <<"F">>,
      rules |-> [F |-> <<"F", "+", "F", "-", "F", "-", "F", "+", "F">>]],
   custom |->
     [axiom |-> <<"F">>,
      rules |-> [F |-> <<"F", "+", "F", "-", "F">>]]]

\* mutant: a character without a rule is dropped
Replacement_RulesOnly(rules, char) ==
  IF char \in DOMAIN rules THEN rules[char] ELSE <<>>

\* rules[char] || char
Replacement(rules, char) ==
  IF char \in DOMAIN rules /\ rules[char] # <<>> THEN rules[char]
  ELSE <<char>>

RECURSIVE Rewritten(_, _, _, _)
\* the inner loop over result[lo..hi]: newResult += rules[char] || char for
\* each character from left to right (the concatenation is grouped in halves)
Rewritten(result, rules, lo, hi) ==
  IF lo > hi THEN <<>>
  ELSE IF lo = hi THEN Replacement(rules, result[lo])
  ELSE LET mid == (lo + hi) \div 2
       IN Rewritten(result, rules, lo, mid)
            \o Rewritten(result, rules, mid + 1, hi)

LSystemInit ==
  lSystem = [phase |-> "idle", preset |-> "koch", iterations |-> 0, i |-> 0,
             result |-> <<>>]

\* generateLSystem(axiom, rules, params.iterations) has been entered:
\* let result = axiom
LSystemEntered ==
  \E preset \in DOMAIN presets :
    \E iterations \in 0..(IF preset = "koch" THEN DeclaredMaxIterations
                          ELSE MaxIter) :
      lSystem = [phase |-> "loop", preset |-> preset,
                 iterations |-> iterations, i |-> 0,
                 result |-> presets[preset].axiom]

\* one pass of the outer loop: result = newResult, i++
GenerateLSystemPass ==
  /\ lSystem.phase = "loop"
  /\ lSystem.i < lSystem.iterations
  /\ lSystem' = [lSystem EXCEPT
                   !.result = Rewritten(@, presets[lSystem.preset].rules,
                                        1, Len(@)),
                   !.i = @ + 1]
  /\ op' = "generateLSystemPass"
  /\ UNCHANGED <<appVars, caDraw, lookup, caSize, followCall, voronoiDraw, mandalaDraw,
                 particleUpdate, tutorial>>

\* return result
GenerateLSystemReturn ==
  /\ lSystem.phase = "loop"
  /\ lSystem.i >= lSystem.iterations
  /\ lSystem' = [lSystem EXCEPT !.phase = "done"]
  /\ op' = "generateLSystem"
  /\ UNCHANGED <<appVars, caDraw, lookup, caSize, followCall, voronoiDraw, mandalaDraw,
                 particleUpdate, tutorial>>

LSystemNext ==
  \/ GenerateLSystemPass
  \/ GenerateLSystemReturn

\* ------------------------------------------ particle system: Particle.update
\* the largest speed, in pixels per frame, and the larger canvas side, in
\* pixels, looked at
MaxSpeed == 5
MaxExtent == 8

\* positions and velocities are written in units of 1 / Scale pixel, which
\* keeps the products with the damping (in hundredths) and with 0.8 whole
Scale == 50
Px(v) == v * Scale

\* a canvas too small for the larger particle, and a larger one
ParticleCanvasSides == {3, MaxExtent}
ParticleSizes == {1, 2}
Dampings == {90, 100}

\* v * -0.8
Reflected(v) == -((v * 4) \div 5)

\* mutant: the velocity is reflected, the position is left outside
Bounce_NoClamp(pos, vel, size, extent) ==
  IF pos < size \/ pos > extent - size THEN <<pos, Reflected(vel)>>
  ELSE <<pos, vel>>

\* the two edge tests of one axis, in the order of the code
Bounce(pos, vel, size, extent) ==
  LET low == IF pos < size THEN <<size, Reflected(vel)>> ELSE <<pos, vel>>
  IN IF low[1] > extent - size THEN <<extent - size, Reflected(low[2])>>
     ELSE low

\* Particle.update with attraction = 0
update(p, size, canvasWidth, canvasHeight, gravity, windForce, damping) ==
  LET vy1 == p.vy + gravity
      vx1 == p.vx + windForce
      vx2 == (vx1 * damping) \div 100
      vy2 == (vy1 * damping) \div 100
      bx == Bounce(p.x + vx2, vx2, size, canvasWidth)
      by == Bounce(p.y + vy2, vy2, size, canvasHeight)
  IN [x |-> bx[1], y |-> by[1], vx |-> bx[2], vy |-> by[2]]

ParticleInit ==
  particleUpdate = [called |-> FALSE, size |-> Px(1), side |-> Px(3),
                    gravity |-> 0, windForce |-> 0, damping |-> 100,
                    before |-> [x |-> 0, y |-> 0, vx |-> 0, vy |-> 0],
                    after |-> [x |-> 0, y |-> 0, vx |-> 0, vy |-> 0]]

\* a particle on a square canvas is about to be updated
ParticleEntered ==
  \E side \in ParticleCanvasSides, size \in ParticleSizes,
     gravity \in {0, 1}, windForce \in {-1, 0}, damping \in Dampings :
    \E x \in 0..side, y \in 0..side, vx \in (-MaxSpeed)..MaxSpeed,
       vy \in {-MaxSpeed, 0, MaxSpeed} :
      LET p == [x |-> Px(x), y |-> Px(y), vx |-> Px(vx), vy |-> Px(vy)]
      IN particleUpdate = [called |-> FALSE, size |-> Px(size),
                           side |-> Px(side), gravity |-> Px(gravity),
                           windForce |-> Px(windForce), damping |-> damping,
                           before |-> p, after |-> p]

ParticleUpdate ==
  /\ ~particleUpdate.called
  /\ particleUpdate' =
       [particleUpdate EXCEPT
          !.called = TRUE,
          !.after = update(particleUpdate.before, particleUpdate.size,
                           particleUpdate.side, particleUpdate.side,
                           particleUpdate.gravity, particleUpdate.windForce,
                           particleUpdate.damping)]
  /\ op' = "particleUpdate"
  /\ UNCHANGED <<appVars, caDraw, lookup, caSize, followCall, voronoiDraw, mandalaDraw, lSystem,
                 tutorial>>

ParticleNext == ParticleUpdate

\* ------------------------------------------------------- tutorial store
\* defaultTutorials: the ids in order, and for each tutorial the
\* targetElement of its steps (Null where a step has none)
TutorialIds == <<"first-artwork", "algorithm-deep-dive", "advanced-features">>

TutorialSteps ==
  [t \in {TutorialIds[n] : n \in 1..Len(TutorialIds)} |->
     CASE t = "first-artwork" ->
            <<Null, "algorithm-selector", "parameter-controls",
              "generate-button", "save-panel", Null>>
       [] t = "algorithm-deep-dive" ->
            <<"flow-field", "cellular-automata", "l-systems">>
       [] t = "advanced-features" ->
            <<"algorithm-combiner", "share-options">>]

\* the ids startTutorial is called with: those of the tutorials and another
StartIds == DOMAIN TutorialSteps \cup {"unknown"}

\* currentTutorial.steps[n].targetElement || null, n counted from 0
TargetElement(t, n) == TutorialSteps[t][n + 1]

TutorialInit ==
  tutorial = [isInTutorial |-> FALSE, currentTutorial |-> Null,
              currentStep |-> 0, completedTutorials |-> <<>>,
              highlightedElement |-> Null, showSkipDialog |-> FALSE,
              returned |-> FALSE]

\* the store after a call that returned before any set
Returned == [tutorial EXCEPT !.returned = TRUE]

\* markTutorialAsCompleted(tutorialId) applied to a state
markTutorialAsCompleted(st, tutorialId) ==
  IF \E n \in 1..Len(st.completedTutorials) :
       st.completedTutorials[n] = tutorialId
  THEN st
  ELSE [st EXCEPT !.completedTutorials = Append(@, tutorialId)]

\* completeTutorial()
completeTutorial ==
  IF tutorial.currentTutorial = Null THEN Returned
  ELSE [markTutorialAsCompleted(tutorial, tutorial.currentTutorial) EXCEPT
          !.isInTutorial = FALSE, !.currentTutorial = Null,
          !.currentStep = 0, !.highlightedElement = Null,
          !.returned = FALSE]

\* mutant: the index moves on without a look at the number of steps
nextStep_PastEnd ==
  IF tutorial.currentTutorial = Null THEN Returned
  ELSE [tutorial EXCEPT !.currentStep = @ + 1, !.highlightedElement = Null,
                        !.returned = FALSE]

\* nextStep()
nextStep ==
  IF tutorial.currentTutorial = Null THEN Returned
  ELSE LET next == tutorial.currentStep + 1
       IN IF next >= Len(TutorialSteps[tutorial.currentTutorial])
          THEN completeTutorial
          ELSE [tutorial EXCEPT
                  !.currentStep = next,
                  !.highlightedElement =
                     TargetElement(tutorial.currentTutorial, next),
                  !.returned = FALSE]

\* the rest of the state is not the tutorial store's
TutorialOp(name) ==
  /\ op' = name
  /\ UNCHANGED <<appVars, caDraw, lookup, caSize, followCall, voronoiDraw, mandalaDraw, lSystem, particleUpdate>>

StartTutorial ==
  \E tutorialId \in StartIds :
    /\ tutorial' =
         IF tutorialId \notin DOMAIN TutorialSteps THEN Returned
         ELSE [tutorial EXCEPT
                 !.isInTutorial = TRUE, !.currentTutorial = tutorialId,
                 !.currentStep = 0,
                 !.highlightedElement = TargetElement(tutorialId, 0),
                 !.returned = FALSE]
    /\ TutorialOp("startTutorial")

NextStep ==
  /\ tutorial' = nextStep
  /\ TutorialOp("nextStep")

PreviousStep ==
  /\ tutorial' =
       IF tutorial.currentTutorial = Null \/ tutorial.currentStep = 0
       THEN Returned
       ELSE [tutorial EXCEPT
               !.currentStep = @ - 1,
               !.highlightedElement =
                  TargetElement(tutorial.currentTutorial,
                                tutorial.currentStep - 1),
               !.returned = FALSE]
  /\ TutorialOp("previousStep")

SkipStep ==
  /\ tutorial' = nextStep
  /\ TutorialOp("skipStep")

CompleteTutorial ==
  /\ tutorial' = completeTutorial
  /\ TutorialOp("completeTutorial")

ExitTutorial ==
  /\ tutorial' = [tutorial EXCEPT
                    !.isInTutorial = FALSE, !.currentTutorial = Null,
                    !.currentStep = 0, !.highlightedElement = Null,
                    !.showSkipDialog = FALSE, !.returned = FALSE]
  /\ TutorialOp("exitTutorial")

ResetTutorialProgress ==
  /\ tutorial' = [tutorial EXCEPT
                    !.completedTutorials = <<>>, !.isInTutorial = FALSE,
                    !.currentTutorial = Null, !.currentStep = 0,
                    !.returned = FALSE]
  /\ TutorialOp("resetTutorialProgress")

SetShowSkipDialog ==
  \E show \in BOOLEAN :
    /\ tutorial' = [tutorial EXCEPT !.showSkipDialog = show,
                                    !.returned = FALSE]
    /\ TutorialOp("setShowSkipDialog")

TutorialNext ==
  \/ StartTutorial
  \/ NextStep
  \/ PreviousStep
  \/ SkipStep
  \/ CompleteTutorial
  \/ ExitTutorial
  \/ ResetTutorialProgress
  \/ SetShowSkipDialog

Init ==
  /\ StoreInit
  /\ CanvasInit
  /\ FlowInit
  /\ EditorInit
  /\ CAInit
  /\ RegistryInit
  /\ TutorialInit
  /\ ParticleInit
  /\ LSystemInit
  /\ MandalaInit
  /\ VoronoiInit
  /\ FollowInit
  /\ op = "init"

SpecEditor == Init /\ [][EditorNext]_vars

SpecEditorList == Init /\ [][EditorListNext]_vars

InitCA ==
  /\ StoreInit
  /\ CanvasInit
  /\ FlowInit
  /\ EditorInit
  /\ CAEntered
  /\ RegistryInit
  /\ TutorialInit
  /\ ParticleInit
  /\ LSystemInit
  /\ MandalaInit
  /\ VoronoiInit
  /\ FollowInit
  /\ op = "init"

SpecCA == InitCA /\ [][CANext]_vars

InitLife ==
  /\ StoreInit
  /\ CanvasInit
  /\ FlowInit
  /\ EditorInit
  /\ LifeEntered
  /\ RegistryInit
  /\ TutorialInit
  /\ ParticleInit
  /\ LSystemInit
  /\ MandalaInit
  /\ VoronoiInit
  /\ FollowInit
  /\ op = "init"

SpecLife == InitLife /\ [][CANext]_vars

SpecCatalog == Init /\ [][CatalogNext]_vars

SpecStore == Init /\ [][StoreNext]_vars

Spec == Init /\ [][LoopNext]_vars

SpecFlow == Init /\ [][FlowNext]_vars

InitFollow ==
  /\ StoreInit
  /\ CanvasInit
  /\ FlowInit
  /\ EditorInit
  /\ CAInit
  /\ RegistryInit
  /\ TutorialInit
  /\ ParticleInit
  /\ LSystemInit
  /\ MandalaInit
  /\ VoronoiInit
  /\ FollowEntered
  /\ op = "init"

SpecFollow == InitFollow /\ [][FollowNext]_vars

InitVoronoi ==
  /\ StoreInit
  /\ CanvasInit
  /\ FlowInit
  /\ EditorInit
  /\ CAInit
  /\ RegistryInit
  /\ TutorialInit
  /\ ParticleInit
  /\ LSystemInit
  /\ MandalaInit
  /\ VoronoiEntered
  /\ FollowInit
  /\ op = "init"

SpecVoronoi == InitVoronoi /\ [][VoronoiNext]_vars

InitMandala ==
  /\ StoreInit
  /\ CanvasInit
  /\ FlowInit
  /\ EditorInit
  /\ CAInit
  /\ RegistryInit
  /\ TutorialInit
  /\ ParticleInit
  /\ LSystemInit
  /\ MandalaEntered
  /\ VoronoiInit
  /\ FollowInit
  /\ op = "init"

\* the loop runs on as long as its condition holds
SpecMandala == InitMandala /\ [][MandalaNext]_vars /\ WF_vars(MandalaNext)

InitLSystem ==
  /\ StoreInit
  /\ CanvasInit
  /\ FlowInit
  /\ EditorInit
  /\ CAInit
  /\ RegistryInit
  /\ TutorialInit
  /\ ParticleInit
  /\ LSystemEntered
  /\ MandalaInit
  /\ VoronoiInit
  /\ FollowInit
  /\ op = "init"

SpecLSystem == InitLSystem /\ [][LSystemNext]_vars

InitParticle ==
  /\ StoreInit
  /\ CanvasInit
  /\ FlowInit
  /\ EditorInit
  /\ CAInit
  /\ RegistryInit
  /\ TutorialInit
  /\ ParticleEntered
  /\ LSystemInit
  /\ MandalaInit
  /\ VoronoiInit
  /\ FollowInit
  /\ op = "init"

SpecParticle == InitParticle /\ [][ParticleNext]_vars

SpecTutorial == Init /\ [][TutorialNext]_vars

\* ===================================================================== claims
Draws(by) == {i \in DOMAIN log : log[i].by = by}

\* C1: at most one animation tick is pending at any moment, and while a
\* tick's draw call is running no following tick has been requested yet.
C1_OneTickPending ==
  /\ Cardinality(pending) <= 1
  /\ tick # {} => pending = {}

\* C1 witness: a tick's draw has returned and the next tick is pending
C1_Witness ==
  /\ op = "animationFrameReturn"
  /\ Cardinality(pending) = 1
  /\ ~log[1].threw

\* C2: with animate off or the component unmounted no tick is pending and the
\* handle is released; every pending tick belongs to the selected algorithm,
\* and every draw made by a tick is the selected algorithm's, made while
\* mounted with animate on.
C2_TickCancelledOnSwitch ==
  /\ (~mounted \/ ~animate) => (pending = {} /\ animationRef = NoHandle)
  /\ \A c \in pending : c.algorithm = selectedAlgorithm /\ c.animate
  /\ \A i \in Draws("tick") :
       log[i].algorithm = selectedAlgorithm /\ mounted /\ animate

\* C2 witness: while animating flow-field with a custom unit saved, the
\* custom unit is selected and the new loop's tick is the only one pending
C2_Witness ==
  /\ op = "selectAlgorithm"
  /\ selectedAlgorithm = "custom-1"
  /\ mounted /\ animate
  /\ \E c \in pending : c.algorithm = "custom-1" /\ c.handle = animationRef

\* C3: a parameter edit while Animating makes no generateArt draw and leaves
\* the requested tick in place (same handle, neither cancelled nor re-requested).
C3_ParameterEditKeepsLoop ==
  [][(op' = "parameterChange" /\ mounted /\ animate /\ isAnimatingRef)
       => /\ Draws("generateArt")' = {}
          /\ {c.handle : c \in pending'} = {c.handle : c \in pending}]_vars

\* C4: while not Animating, a parameter change to a different value makes
\* exactly one draw call when autoRegenerate is on and none when it is off.
C4_OneDrawPerEdit ==
  [][(op' = "parameterChange" /\ mounted /\ ~animate /\ parameters' # parameters)
       => Len(log') = IF autoRegenerate THEN 1 ELSE 0]_vars

\* C5: every draw call is passed the ParameterValues current at the moment of
\* the call.
C5_DrawGetsCurrentParameters ==
  \A i \in DOMAIN log : log[i].params = parameters

\* C6: every draw call that throws is reported to the caller.
C6_FailuresReported ==
  \A i \in DOMAIN log : log[i].threw => log[i].reported

\* the loop has stopped itself: mounted, no tick pending or running, and the
\* animating flag cleared
Stopped == mounted /\ pending = {} /\ tick = {} /\ ~isAnimatingRef

\* C7 (as stated): a tick whose draw throws requests no further tick, and the
\* stopped loop is started again only by a change of the algorithm, the
\* parameters or the animate flag.
C7_StoppedUntilChange ==
  [][/\ (op' = "animationFrameReturn" /\ log'[1].threw) => pending' = {}
     /\ (Stopped /\ pending' # {})
          => op' \in {"selectAlgorithm", "saveCustom", "deleteCustom",
                      "parameterChange", "setAnimate"}]_vars

\* C7 (amended): a tick whose draw throws requests no further tick and clears
\* the animating flag, and the stopped loop is restarted only by an event that
\* re-runs the start/stop effect: an algorithm selection, save or delete, a
\* parameter change, an animate change or a resize.
C7_StoppedUntilEffectReruns ==
  [][/\ (op' = "animationFrameReturn" /\ log'[1].threw)
          => (pending' = {} /\ ~isAnimatingRef')
     /\ (Stopped /\ pending' # {})
          => op' \in {"selectAlgorithm", "parameterChange", "setAnimate",
                      "resize", "saveCustom", "deleteCustom"}]_vars

\* C7 witness: a tick's draw has thrown and the loop is stopped
C7_Witness ==
  /\ op = "animationFrameReturn"
  /\ log[1].threw
  /\ Stopped /\ animate

\* C8: a flow-field draw on one surface works only on particles that belong
\* to that surface and paints only that surface: two canvases animating
\* flow-field each keep their own particles.
C8_FlowStatePrivate ==
  flowDraw.surface # "none" =>
    /\ flowDraw.painted = {flowDraw.surface}
    /\ \A i \in 1..Len(flowFieldParticles.pool) :
         flowFieldParticles.pool[i].canvas = flowDraw.surface

\* C9: the keys of parameters are parameter ids of the selected algorithm
\* (none when nothing is selected).
C9_KeysOfSelected ==
  DOMAIN parameters \subseteq ParameterIds(selectedAlgorithm)

\* C10: a store action that changes the selection leaves parameters equal to
\* the new unit's defaults, or empty when the selection becomes null.
C10_SeededOnSelection ==
  [][(/\ op' \in {"setSelectedAlgorithm", "saveCustomAlgorithm",
                  "deleteCustomAlgorithm"}
      /\ selectedAlgorithm' # selectedAlgorithm)
       => parameters' = IF selectedAlgorithm' = Null THEN NoParams
                        ELSE getDefaultParameters(selectedAlgorithm')]_vars

\* C11: a Save while the source text does not compile hands nothing to
\* onSave, leaves customAlgorithms, selectedAlgorithm and parameters as they
\* were, leaves the selected unit in the catalog, and shows an error.
C11_CompileFailureBlocksSave ==
  [][(op' = "handleSave" /\ code = "syntaxError")
       => /\ onSaveArg' = <<>>
          /\ customAlgorithms' = customAlgorithms
          /\ selectedAlgorithm' = selectedAlgorithm
          /\ parameters' = parameters
          /\ selectedAlgorithm' \in BuiltInIds \cup {Null}
               \/ \E i \in 1..Len(customAlgorithms') :
                    customAlgorithms'[i].id = selectedAlgorithm'
          /\ previewError' # "none"
          /\ showCustomEditor']_vars

\* C11 witness: with a saved custom unit selected, a Save of a text that does
\* not compile has shown its error
C11_Witness ==
  /\ op = "handleSave"
  /\ code = "syntaxError"
  /\ previewError = "save"
  /\ selectedAlgorithm = "custom-1"
  /\ onSaveArg = <<>>

\* C16: the parameter ids of an algorithm handed to onSave are pairwise
\* distinct.
C16_SavedIdsDistinct ==
  \A u \in {onSaveArg[n] : n \in DOMAIN onSaveArg} :
    \A i, j \in 1..Len(u.parameters) :
      u.parameters[i].id = u.parameters[j].id => i = j

\* C12: a built-in draw called with a select value that is not among the
\* declared options (here the cellular-automata rule) returns without
\* throwing.
C12_UnknownOptionTolerated ==
  caDraw.called => ~caDraw.threw

\* generation k of an elementary rule from the single middle cell, cells
\* beyond the row taken as 0
RECURSIVE CanonicalRow(_, _)
CanonicalRow(rule, k) ==
  IF k = 0 THEN [x \in 0..(GridCols - 1) |-> IF x = GridCols \div 2 THEN 1 ELSE 0]
  ELSE LET prev == CanonicalRow(rule, k - 1)
           at(x) == IF x \in DOMAIN prev THEN prev[x] ELSE 0
       IN [x \in 0..(GridCols - 1) |->
             RuleBit(rule, 4 * at(x - 1) + 2 * at(x) + at(x + 1))]

\* the grid a finished draw call paints
FinalGrid == caDraw.steps[Len(caDraw.steps)].output

\* C18: after g generations of rule 30 without wrap (g < rows) the grid holds
\* generation k of Rule 30 as one of its rows, for every k up to g that fits
\* the width.
C18_Rule30Triangle ==
  (/\ caDraw.called
   /\ caDraw.params.rule = "elementary"
   /\ caDraw.params.elementaryRule = 30
   /\ ~caDraw.params.wrap
   /\ caDraw.params.stepsPerFrame < GridRows)
    => \A k \in 0..caDraw.params.stepsPerFrame :
         k <= GridCols \div 2 =>
           \E y \in 0..(GridRows - 1) :
             \A x \in 0..(GridCols - 1) :
               FinalGrid[<<y, x>>] = CanonicalRow(30, k)[x]

\* C20: in a wireWorld draw call the seed conversion happens in the first
\* generation only, and every later generation is the transition of the grid
\* the generation before it produced: head to tail, tail to conductor, empty
\* stays, conductor to head iff 1 or 2 neighbouring heads.
C20_WireWorldConvertsOnce ==
  (caDraw.called /\ caDraw.params.rule = "wireWorld")
    => \A k \in 2..Len(caDraw.steps) :
         /\ caDraw.steps[k].input = caDraw.steps[k].before
         /\ caDraw.steps[k].output =
              WireWorldNext(caDraw.steps[k].before, caDraw.params)

\* C13: while no algorithm is selected no draw function is invoked, by the
\* initial generation, a tick, a regeneration or the Generate trigger, and no
\* draw call is ever made on an absent algorithm.
C13_IdleDrawsNothing ==
  /\ selectedAlgorithm = Null => (log = <<>> /\ tick = {})
  /\ \A i \in DOMAIN log : log[i].algorithm # Null

\* C13 witness: with nothing selected and animate on, the frame requested at
\* mount has fired and returned without drawing
C13_Witness ==
  /\ op = "animationFrame"
  /\ selectedAlgorithm = Null
  /\ mounted /\ animate /\ autoRegenerate
  /\ log = <<>>

\* C14: getAlgorithmById returns the unit with the given id whenever the
\* catalog (the six built-ins followed by the saved custom units) holds one,
\* and null when it holds none.
C14_LookupFindsCatalogUnits ==
  [][op' = "getAlgorithmById"
       => lookup'.found =
            IF \E i \in 1..Len(availableAlgorithms) :
                 availableAlgorithms[i] = lookup'.id
            THEN lookup'.id ELSE Null]_vars

\* the position of the unit with the given id in a list of units
PositionOf(units, id) == CHOOSE i \in 1..Len(units) : units[i].id = id

\* C15: the catalog is the six built-ins in declaration order followed by
\* the custom units; a save puts the new unit, marked isCustom, after the
\* units already there, and a delete removes one id and leaves the other
\* units and their relative order as they were.
C15_CatalogOrder ==
  [][/\ availableAlgorithms' =
          allAlgorithms \o [i \in 1..Len(customAlgorithms') |->
                              customAlgorithms'[i].id]
     /\ \A i \in 1..Len(customAlgorithms') : customAlgorithms'[i].isCustom
     /\ op' = "saveCustomAlgorithm"
          => /\ Len(customAlgorithms') = Len(customAlgorithms) + 1
             /\ \A i \in 1..Len(customAlgorithms) :
                  customAlgorithms'[i] = customAlgorithms[i]
             /\ customAlgorithms'[Len(customAlgorithms')].id = selectedAlgorithm'
     /\ op' = "deleteCustomAlgorithm"
          => /\ Len(customAlgorithms') = Len(customAlgorithms) - 1
             /\ \A i \in 1..Len(customAlgorithms') :
                  \E j \in 1..Len(customAlgorithms) :
                    customAlgorithms[j] = customAlgorithms'[i]
             /\ \A i, j \in 1..Len(customAlgorithms') :
                  i < j => PositionOf(customAlgorithms, customAlgorithms'[i].id)
                             < PositionOf(customAlgorithms, customAlgorithms'[j].id)
     /\ op' = "getAlgorithmById" => customAlgorithms' = customAlgorithms]_vars

\* C15 witness: of three saved units the second has been deleted
C15_Witness ==
  /\ op = "deleteCustomAlgorithm"
  /\ Len(customAlgorithms) = 2
  /\ customAlgorithms[1].id = "custom-1"
  /\ customAlgorithms[2].id = "custom-3"

\* a declared parameter's default lies within its range or among its options
DefaultAdmissible(q) ==
  /\ q.type \in {"number", "range"} => (q.min <= q.default /\ q.default <= q.max)
  /\ q.type = "select" => q.choice \in q.options

\* C17: every parameter of each of the six built-in units, as returned by a
\* lookup of the unit, has min <= default <= max (number, range) or a default
\* that is one of its options (select).
C17_DefaultsInRange ==
  \A i \in 1..Len(allAlgorithms) :
    (lookup.found = allAlgorithms[i] \/ lookup.found = Null) =>
      \A n \in 1..Len(DeclaredParameters(allAlgorithms[i])) :
        DefaultAdmissible(DeclaredParameters(allAlgorithms[i])[n])

\* C17 witness: the cellular automata unit has been looked up; its rule
\* (select) and stepsPerFrame (number) parameters are among those checked
C17_Witness ==
  /\ op = "getAlgorithmById"
  /\ lookup.found = "cellular-automata"
  /\ \E n \in 1..Len(DeclaredParameters(lookup.found)) :
       DeclaredParameters(lookup.found)[n].type = "select"
  /\ \E n \in 1..Len(DeclaredParameters(lookup.found)) :
       DeclaredParameters(lookup.found)[n].type = "number"

\* C19: in a flow-field frame every particle of the pool is treated by the
\* ParameterValues of that draw call (here the edge policy), also a particle
\* created by an earlier call with other values.
C19_ParticlesFollowCurrentParams ==
  flowDraw.surface # "none" =>
    \A i \in 1..Len(flowFieldParticles.pool) :
      flowFieldParticles.pool[i].params.loopEdges = flowDraw.params.loopEdges

\* the number of live cells among the eight cells adjacent to c: taken
\* around the torus with wrap, cells outside the grid dead without
LiveAround(grid, c, wrap) ==
  LET Offsets == {<<-1, -1>>, <<-1, 0>>, <<-1, 1>>, <<0, -1>>, <<0, 1>>,
                  <<1, -1>>, <<1, 0>>, <<1, 1>>}
      cell(o) == IF wrap
                 THEN <<(c[1] + o[1]) % GridRows, (c[2] + o[2]) % GridCols>>
                 ELSE <<c[1] + o[1], c[2] + o[2]>>
  IN Cardinality({o \in Offsets : cell(o) \in Cells /\ grid[cell(o)] = 1})

\* C21: each gameOfLife generation makes a cell alive iff it was alive with
\* 2 or 3 live neighbours or dead with exactly 3; a glider on the 5 by 5
\* torus is, after 4 generations, the glider moved one cell down and right.
C21_LifeRule ==
  (caDraw.called /\ caDraw.params.rule = "gameOfLife")
    => /\ \A k \in 1..Len(caDraw.steps) : \A c \in Cells :
            LET g == caDraw.steps[k].input
                n == LiveAround(g, c, caDraw.params.wrap)
            IN caDraw.steps[k].output[c] =
                 IF (g[c] = 1 /\ n \in {2, 3}) \/ (g[c] # 1 /\ n = 3)
                 THEN 1 ELSE 0
       /\ (/\ {c \in Cells : caDraw.seed[c] = 1} = Glider
           /\ caDraw.params.wrap
           /\ caDraw.params.stepsPerFrame = GliderPeriod)
            => {c \in Cells : FinalGrid[c] = 1}
                 = {<<(c[1] + 1) % GridRows, (c[2] + 1) % GridCols>> : c \in Glider}

\* C21 witness: four generations of the glider on the torus have run
C21_Witness ==
  /\ caDraw.called
  /\ caSize = <<5, 5>>
  /\ {c \in Cells : caDraw.seed[c] = 1} = Glider
  /\ caDraw.params.wrap
  /\ Len(caDraw.steps) = GliderPeriod
  /\ FinalGrid[<<3, 3>>] = 1

\* C25: with symmetry on and a rule other than elementary the seeded grid is
\* its own left/right mirror image, for odd and even widths alike.
C25_SeedMirrored ==
  (caDraw.called /\ caDraw.params.symmetry /\ caDraw.params.rule # "elementary")
    => \A c \in Cells :
         caDraw.seed[c] = caDraw.seed[<<c[1], GridCols - 1 - c[2]>>]

\* C22: a flow-field draw clears fully (and resets the particles) exactly
\* when its ParameterValues differ from those of the previous draw call and
\* clearCanvas is on, and fades otherwise.
C22_ClearIffChangedSincePreviousCall ==
  flowDraw.calls >= 2 =>
    (flowDraw.cleared <=>
       (flowDraw.params # flowDraw.previous /\ flowDraw.params.clearCanvas # 0))

C23_ForceOfOwnCellOnly ==
  followCall.called =>
    LET cx == followCall.x \div scl
        cy == followCall.y \div scl
        exists == /\ 0 <= cx /\ cx < followCall.width \div scl
                  /\ 0 <= cy /\ cy < followCall.height \div scl
    IN followCall.force = IF exists THEN <<cx, cy>> ELSE NoForce

\* C24: a voronoi draw generates exactly pointCount seed points, for each of
\* the distributions random, grid, circular and clustered, and relaxation
\* leaves that number unchanged.
C24_ExactlyPointCountSeeds ==
  (voronoiDraw.called /\ voronoiDraw.params.pointDistribution \in Distributions)
    => /\ Len(voronoiDraw.generated) = voronoiDraw.params.pointCount
       /\ Len(voronoiDraw.points) = Len(voronoiDraw.generated)

\* C26: the mandala draw terminates for every rotations and steps value the
\* controls can deliver, rotations = 0 and non-positive steps included.
C26_MandalaTerminates == <>(mandalaDraw.phase = "done")

RECURSIVE Pow5(_)
Pow5(n) == IF n = 0 THEN 1 ELSE 5 * Pow5(n - 1)

RECURSIVE KochCurve(_)
\* the koch string of order n, built from five copies of the order below
KochCurve(n) ==
  IF n = 0 THEN <<"F">>
  ELSE LET k == KochCurve(n - 1)
       IN k \o <<"+">> \o k \o <<"-">> \o k \o <<"-">> \o k \o <<"+">> \o k

\* C28 as stated: the koch string after n iterations has length 5^n.
C28_KochLengthPow5 ==
  (lSystem.phase = "done" /\ lSystem.preset = "koch")
    => Len(lSystem.result) = Pow5(lSystem.iterations)

\* C28 amended: the koch string after n iterations is the koch string of
\* order n: it holds 5^n characters F among 2 * 5^n - 1 characters, every F
\* replaced by F+F-F-F+F and every + and - copied, in order.
C28_KochGrowth ==
  (lSystem.phase = "done" /\ lSystem.preset = "koch")
    => /\ lSystem.result = KochCurve(lSystem.iterations)
       /\ Len(lSystem.result) = 2 * Pow5(lSystem.iterations) - 1
       /\ Cardinality({j \in 1..Len(lSystem.result) : lSystem.result[j] = "F"})
            = Pow5(lSystem.iterations)

\* C28 witness: the koch string of the highest declared iteration count
C28_Witness ==
  /\ lSystem.phase = "done"
  /\ lSystem.preset = "koch"
  /\ lSystem.iterations = DeclaredMaxIterations
  /\ lSystem.i = DeclaredMaxIterations

\* C29: on a canvas at least 2 * size wide and high, a particle at
\* x = size - 1 with vx = -5, no forces and damping 1 is after one update at
\* x = size with vx = 4 (moved, then put on the edge, then reflected with
\* 0.8), and after any update the particle lies within
\* [size, width - size] x [size, height - size].
C29_EdgeReflection ==
  (particleUpdate.called /\ particleUpdate.side >= 2 * particleUpdate.size) =>
    LET u == particleUpdate
    IN /\ (/\ u.before.x = u.size - Px(1)
           /\ u.before.vx = Px(-5)
           /\ u.windForce = 0
           /\ u.damping = 100)
            => (u.after.x = u.size /\ u.after.vx = Px(4))
       /\ u.size <= u.after.x /\ u.after.x <= u.side - u.size
       /\ u.size <= u.after.y /\ u.after.y <= u.side - u.size

\* C29 witness: the particle one pixel inside the left margin, moving left
\* at 5, has been updated on a canvas that is wide enough
C29_Witness ==
  /\ particleUpdate.called
  /\ particleUpdate.before.x = particleUpdate.size - Px(1)
  /\ particleUpdate.before.vx = Px(-5)
  /\ particleUpdate.windForce = 0
  /\ particleUpdate.damping = 100
  /\ particleUpdate.side >= 2 * particleUpdate.size
  /\ particleUpdate.after.vx = Px(4)

\* C30: in every state of the tutorial store isInTutorial holds iff there is
\* a current tutorial; with one, currentStep is the index of one of its
\* steps; without one, currentStep is 0; and nextStep on the last step
\* completes the tutorial instead of moving the index past the end.
C30_TutorialConsistent ==
  /\ [](/\ tutorial.isInTutorial <=> tutorial.currentTutorial # Null
        /\ tutorial.currentTutorial # Null =>
             /\ 0 <= tutorial.currentStep
             /\ tutorial.currentStep
                  < Len(TutorialSteps[tutorial.currentTutorial])
        /\ tutorial.currentTutorial = Null => tutorial.currentStep = 0)
  /\ [][(/\ op' = "nextStep"
         /\ tutorial.currentTutorial # Null
         /\ tutorial.currentStep + 1
              = Len(TutorialSteps[tutorial.currentTutorial]))
          => /\ tutorial'.currentTutorial = Null
             /\ ~tutorial'.isInTutorial
             /\ tutorial'.currentStep = 0
             /\ \E n \in 1..Len(tutorial'.completedTutorials) :
                  tutorial'.completedTutorials[n] = tutorial.currentTutorial]_vars

\* C30 witness: nextStep on the last step has completed a second tutorial
C30_Witness ==
  /\ op = "nextStep"
  /\ ~tutorial.returned
  /\ tutorial.currentTutorial = Null
  /\ Len(tutorial.completedTutorials) = 2

====
